---------------------------- MODULE Spec2Model ----------------------------
(***************************************************************************)
(* Geodesic-integration core of the SRFM repository:                       *)
(*   - srfm::tensor::GeodesicDeviationCalculator::compute and the          *)
(*     tensor-namespace metric / Christoffel / RK4 trajectory integrator   *)
(*     it drives (src/src/tensor/*.cpp);                                   *)
(*   - srfm::geodesic::GeodesicSolver::solve and the manifold-namespace    *)
(*     metric / Christoffel code it uses (src/src/geodesic,                *)
(*     src/src/manifold).                                                  *)
(*                                                                         *)
(* IEEE-754 binary64 is modelled by a miniature number format: a finite    *)
(* value is an integer count of 1/ONE units in -FMAX..FMAX, and the three  *)
(* special values +inf, -inf and NaN are kept apart from it.  The          *)
(* arithmetic operators below follow the IEEE rules for the special values *)
(* (inf - inf = NaN, 0 * inf = NaN, x / 0 = +-inf, comparisons with NaN    *)
(* are false), round a finite result toward zero onto the grid, flush a    *)
(* result smaller than one unit to 0 (underflow) and turn a result beyond  *)
(* FMAX into an infinity (overflow).  Signed zeros are not distinguished.  *)
(***************************************************************************)
EXTENDS Integers, Sequences, FiniteSets, TLC

\* ------------------------------------------------------------------------
\* Bounds of the miniature number format and of the inputs
\* ------------------------------------------------------------------------

\* Grid units per 1.0.
ONE == 600

\* Largest finite magnitude, in grid units (the stand-in for DBL_MAX).
FMAX == 40000

\* Longest observation sequence handed to compute.
MaxEvents == 3

\* Largest step count handed directly to integrate.
MaxSteps == 3

\* ------------------------------------------------------------------------
\* double
\* ------------------------------------------------------------------------

PINF == FMAX + 1
NINF == 0 - (FMAX + 1)
NAN  == FMAX + 2


\* std::isfinite
IsFinite(a) == a >= 0 - FMAX /\ a <= FMAX

IsNaN(a) == a = NAN

IsInf(a) == a = PINF \/ a = NINF

\* Overflow of an exact integer result to an infinity.
Overflow(r) == IF r > FMAX THEN PINF ELSE IF r < 0 - FMAX THEN NINF ELSE r

\* Integer quotient rounded toward zero (b > 0).
TruncDiv(a, b) == IF a >= 0 THEN a \div b ELSE 0 - ((0 - a) \div b)

Sign(a) == IF a > 0 THEN 1 ELSE IF a < 0 THEN 0 - 1 ELSE 0

Abs(a) == IF a < 0 THEN 0 - a ELSE a

\* Each arithmetic operation comes in two parts: the rule that gives the
\* result from the operand values (Neg, Add, Mul, Div, Less, Sqrt), and the
\* operation itself (fneg, fadd, ...), which evaluates each operand once, to
\* a value x or y, and applies the rule to the values.

\* unary minus
Neg(a) == IF IsNaN(a) THEN NAN ELSE 0 - a

fneg(a) == CHOOSE r \in { Neg(x) : x \in {a} } : TRUE

\* a + b
Add(a, b) ==
    IF IsNaN(a) \/ IsNaN(b) THEN NAN
    ELSE IF IsInf(a) THEN (IF IsInf(b) /\ a # b THEN NAN ELSE a)
    ELSE IF IsInf(b) THEN b
    ELSE Overflow(a + b)

fadd(a, b) == CHOOSE r \in { Add(x, y) : x \in {a}, y \in {b} } : TRUE

\* a - b
fsub(a, b) == fadd(a, fneg(b))

\* a * b
Mul(a, b) ==
    IF IsNaN(a) \/ IsNaN(b) THEN NAN
    ELSE IF IsInf(a) \/ IsInf(b)
         THEN (IF a = 0 \/ b = 0 THEN NAN
               ELSE IF Sign(a) * Sign(b) > 0 THEN PINF ELSE NINF)
    ELSE Overflow(TruncDiv(a * b, ONE))

fmul(a, b) == CHOOSE r \in { Mul(x, y) : x \in {a}, y \in {b} } : TRUE

\* a / b
Div(a, b) ==
    IF IsNaN(a) \/ IsNaN(b) THEN NAN
    ELSE IF IsInf(a)
         THEN (IF IsInf(b) THEN NAN
               ELSE IF Sign(a) * (IF b < 0 THEN 0 - 1 ELSE 1) > 0 THEN PINF ELSE NINF)
    ELSE IF IsInf(b) THEN 0
    ELSE IF b = 0
         THEN (IF a = 0 THEN NAN ELSE IF a > 0 THEN PINF ELSE NINF)
    ELSE Overflow(Sign(b) * TruncDiv(a * ONE, Abs(b)))

fdiv(a, b) == CHOOSE r \in { Div(x, y) : x \in {a}, y \in {b} } : TRUE

\* a < b  (false when either operand is NaN)
Less(a, b) == ~IsNaN(a) /\ ~IsNaN(b) /\ a < b

flt(a, b) == CHOOSE r \in { Less(x, y) : x \in {a}, y \in {b} } : TRUE

\* Largest r in lo..hi with r * r <= n  (lo * lo <= n < (hi + 1) * (hi + 1)).
RECURSIVE ISqrt(_, _, _)
ISqrt(n, lo, hi) ==
    IF lo >= hi THEN lo
    ELSE LET mid == (lo + hi + 1) \div 2
         IN  IF mid * mid <= n THEN ISqrt(n, mid, hi) ELSE ISqrt(n, lo, mid - 1)

\* std::sqrt
Sqrt(a) ==
    IF IsNaN(a) THEN NAN
    ELSE IF a < 0 THEN NAN
    ELSE IF a = PINF THEN PINF
    ELSE ISqrt(a * ONE, 0, FMAX)

fsqrt(a) == CHOOSE r \in { Sqrt(x) : x \in {a} } : TRUE

\* static_cast<double>(i) for a small non-negative integer i.
FromInt(i) == Overflow(i * ONE)

\* The grid value of the positive real num/den; a value below the grid's
\* resolution is represented by the smallest positive grid value.
Quantize(num, den) ==
    LET q == (num * ONE) \div den IN IF q = 0 THEN 1 ELSE q

\* ------------------------------------------------------------------------
\* SpacetimePoint / FourVelocity / MetricMatrix  (Eigen fixed-size types)
\* ------------------------------------------------------------------------

SPACETIME_DIM == 4

Idx == 0..(SPACETIME_DIM - 1)

\* A 4-vector with components 0..3 (0 is the time-like one).
Vec4(a, b, c, d) == (0 :> a) @@ (1 :> b) @@ (2 :> c) @@ (3 :> d)

VecZero == Vec4(0, 0, 0, 0)

MatZero == Vec4(VecZero, VecZero, VecZero, VecZero)

\* A vector, matrix or array held by value: all its entries computed, once.
ByValue(v) == CHOOSE w \in {v} : w = w

\* Component-wise vector arithmetic.
VecAdd(a, b) == [k \in Idx |-> fadd(a[k], b[k])]

VecSub(a, b) == [k \in Idx |-> fsub(a[k], b[k])]

VecScale(s, a) == [k \in Idx |-> fmul(s, a[k])]

VecDiv(a, s) == [k \in Idx |-> fdiv(a[k], s)]

\* Eigen's norm(): the square root of the sum of the squared components.
VecNorm(a) ==
    fsqrt(fadd(fadd(fadd(fmul(a[0], a[0]), fmul(a[1], a[1])),
                    fmul(a[2], a[2])), fmul(a[3], a[3])))

\* ------------------------------------------------------------------------
\* srfm::constants
\* ------------------------------------------------------------------------

\* 0.01
DEFAULT_GEODESIC_STEP == Quantize(1, 100)

\* 1e-5
DEFAULT_FD_STEP == Quantize(1, 100000)

\* ------------------------------------------------------------------------
\* srfm::tensor::MetricTensor
\* ------------------------------------------------------------------------

\* MetricTensor::make_diagonal: the metric function
\* x |-> diag(-(time_scale^2), vol0^2, vol1^2, vol2^2), held by its captures.
make_diagonal(time_scale, vol) ==
    [fn |-> "diagonal", time_scale |-> time_scale, vol |-> vol]

\* MetricTensor::make_minkowski
make_minkowski(time_scale, spatial_scale) ==
    make_diagonal(time_scale, <<spatial_scale, spatial_scale, spatial_scale>>)

\* MetricTensor(fn) with the metric function of the curved-metric tests:
\* x |-> diag(-1, 1 + c * x1 * x1, 1, 1).
CurvedSpatial(c) == [fn |-> "curved_spatial", c |-> c]

\* MetricTensor(fn) with the metric function of the time-varying-volatility
\* test: x |-> diag(-1, sigma1^2, 0.09, 0.04), sigma1 = 0.2 + 0.1 * x0.
TimeVaryingVol == [fn |-> "time_varying_vol"]

\* The diagonal of the matrix the metric function returns at x.
metric_fn_diag(metric, x) ==
    CASE metric.fn = "diagonal" ->
           Vec4(fneg(fmul(metric.time_scale, metric.time_scale)),
                fmul(metric.vol[1], metric.vol[1]),
                fmul(metric.vol[2], metric.vol[2]),
                fmul(metric.vol[3], metric.vol[3]))
      [] metric.fn = "curved_spatial" ->
           Vec4(fneg(ONE), fadd(ONE, fmul(fmul(metric.c, x[1]), x[1])), ONE, ONE)
      [] metric.fn = "time_varying_vol" ->
           LET sigma1 == fadd(Quantize(2, 10), fmul(Quantize(1, 10), x[0]))
           IN  Vec4(fneg(ONE), fmul(sigma1, sigma1), Quantize(9, 100),
                    Quantize(4, 100))

\* MetricTensor::evaluate: calls the metric function at x.
evaluate(metric, x) ==
    LET d == metric_fn_diag(metric, x)
    IN  [r \in Idx |-> [c \in Idx |-> IF r # c THEN 0 ELSE d[r]]]

\* std::optional
Nullopt == [has_value |-> FALSE]

Some(v) == [has_value |-> TRUE, value |-> v]

\* inverse without the isInvertible test: the reciprocals whatever g(x) is.
inverse_Unchecked(metric, x) ==
    Some([r \in Idx |-> [c \in Idx |->
             IF r = c THEN fdiv(ONE, evaluate(metric, x)[r][r]) ELSE 0]])

\* MetricTensor::inverse: Eigen::FullPivLU of g(x).  The metrics of this
\* model are diagonal: the pivots of the decomposition are the diagonal
\* entries, the matrix is invertible iff none of them vanishes against the
\* largest (on the grid: iff none is 0), and the inverse is the diagonal
\* matrix of the reciprocals.
inverse(metric, x) ==
    LET g == evaluate(metric, x)
    IN  IF \E k \in Idx : g[k][k] = 0 THEN Nullopt
        ELSE Some([r \in Idx |-> [c \in Idx |->
                      IF r = c THEN fdiv(ONE, g[r][r]) ELSE 0]])

\* ------------------------------------------------------------------------
\* srfm::tensor::ChristoffelSymbols
\* ------------------------------------------------------------------------

\* ChristoffelSymbols::metric_derivative: central finite difference of the
\* metric along coordinate sigma.
metric_derivative(metric, h, x, sigma) ==
    LET xp == [x EXCEPT ![sigma] = fadd(x[sigma], h)]
        xm == [x EXCEPT ![sigma] = fsub(x[sigma], h)]
        gp == evaluate(metric, xp)
        gm == evaluate(metric, xm)
        twoh == fmul(2 * ONE, h)
    IN  [r \in Idx |-> [c \in Idx |-> fdiv(fsub(gp[r][c], gm[r][c]), twoh)]]

\* The bracket with its first derivative taken twice and its second dropped.
bracket_FirstTermTwice(dg, mu, nu, sigma) ==
    fsub(fadd(dg[mu][nu][sigma], dg[mu][nu][sigma]), dg[sigma][mu][nu])

\* compute, lines 63-66: the three-term bracket, dg[s][a][b] being the
\* derivative of g_ab along coordinate s.
bracket(dg, mu, nu, sigma) ==
    fsub(fadd(dg[mu][nu][sigma], dg[nu][mu][sigma]), dg[sigma][mu][nu])

\* ChristoffelSymbols::compute: result[lambda][mu][nu] = Gamma^lambda_mu_nu
\* at x; the all-zero array when the metric is singular at x.
ChristoffelSymbols_compute(metric, h, x) ==
    LET g_inv_opt == inverse(metric, x)
    IN  IF ~g_inv_opt.has_value
        THEN [lambda \in Idx |-> MatZero]
        ELSE
          LET g_inv == ByValue(g_inv_opt.value)
              dg == ByValue([s \in Idx |-> metric_derivative(metric, h, x, s)])
              Term(lambda, mu, nu, sigma) ==
                  fmul(g_inv[lambda][sigma], bracket(dg, mu, nu, sigma))
              Sum(lambda, mu, nu) ==
                  fadd(fadd(fadd(fadd(0, Term(lambda, mu, nu, 0)),
                                 Term(lambda, mu, nu, 1)),
                            Term(lambda, mu, nu, 2)),
                       Term(lambda, mu, nu, 3))
          IN  [lambda \in Idx |-> [mu \in Idx |-> [nu \in Idx |->
                  fmul(ONE \div 2, Sum(lambda, mu, nu))]]]

\* The inner loops of contract for one lambda: the running sum over (mu, nu)
\* in row-major order of gamma_l[mu][nu] * u[mu] * u[nu].
ContractSum(gamma_l, u) ==
    LET T(mu, nu) == fmul(fmul(gamma_l[mu][nu], u[mu]), u[nu])
        r0 == fadd(fadd(fadd(fadd(0, T(0, 0)), T(0, 1)), T(0, 2)), T(0, 3))
        r1 == fadd(fadd(fadd(fadd(r0, T(1, 0)), T(1, 1)), T(1, 2)), T(1, 3))
        r2 == fadd(fadd(fadd(fadd(r1, T(2, 0)), T(2, 1)), T(2, 2)), T(2, 3))
    IN  fadd(fadd(fadd(fadd(r2, T(3, 0)), T(3, 1)), T(3, 2)), T(3, 3))

\* ChristoffelSymbols::contract: result[lambda] = Gamma^lambda_mu_nu u^mu u^nu
ChristoffelSymbols_contract(gamma, u) ==
    [lambda \in Idx |-> ContractSum(gamma[lambda], u)]

\* ------------------------------------------------------------------------
\* srfm::tensor::GeodesicSolver  (trajectory integrator)
\* ------------------------------------------------------------------------

\* GeodesicState{position, velocity} with its operator+ and scalar operator*.
GeodesicState(position, velocity) == [position |-> position, velocity |-> velocity]

StateAdd(a, b) ==
    GeodesicState(VecAdd(a.position, b.position), VecAdd(a.velocity, b.velocity))

StateScale(s, g) == GeodesicState(VecScale(s, g.position), VecScale(s, g.velocity))

\* The ODE right-hand side of rk4_step: (dx/dtau, du/dtau) = (u, -Gamma u u),
\* with the connection evaluated at the position of s.
derivative(metric, christoffel_h, s) ==
    LET gamma == ChristoffelSymbols_compute(metric, christoffel_h, s.position)
        accel == VecScale(fneg(ONE), ChristoffelSymbols_contract(gamma, s.velocity))
    IN  GeodesicState(s.velocity, accel)

\* GeodesicSolver::rk4_step, lines 43-46: slope estimate number Len(ks) + 1
\* of a step from state, given the earlier estimates ks = <<k1, ...>>.
rk4_stage(metric, step_size, christoffel_h, state, ks) ==
    LET h == step_size
    IN  IF Len(ks) = 0 THEN derivative(metric, christoffel_h, state)
        ELSE IF Len(ks) = 1
        THEN derivative(metric, christoffel_h,
                        StateAdd(state, StateScale(fdiv(h, 2 * ONE), ks[1])))
        ELSE IF Len(ks) = 2
        THEN derivative(metric, christoffel_h,
                        StateAdd(state, StateScale(fdiv(h, 2 * ONE), ks[2])))
        ELSE derivative(metric, christoffel_h, StateAdd(state, StateScale(h, ks[3])))

\* GeodesicSolver::rk4_step, line 49: the weighted combination of the four
\* slope estimates ks = <<k1, k2, k3, k4>>.
rk4_combine(step_size, state, ks) ==
    StateAdd(state,
             StateScale(fdiv(step_size, 6 * ONE),
                        StateAdd(StateAdd(StateAdd(ks[1], StateScale(2 * ONE, ks[2])),
                                          StateScale(2 * ONE, ks[3])), ks[4])))

\* A GeodesicState held by value: its eight components, computed.
StateValue(s) ==
    GeodesicState(Vec4(s.position[0], s.position[1], s.position[2], s.position[3]),
                  Vec4(s.velocity[0], s.velocity[1], s.velocity[2], s.velocity[3]))

\* GeodesicSolver::rk4_step, lines 27-50: one whole step from state.
rk4_step(metric, step_size, christoffel_h, state) ==
    LET k1 == StateValue(rk4_stage(metric, step_size, christoffel_h, state, <<>>))
        k2 == StateValue(rk4_stage(metric, step_size, christoffel_h, state, <<k1>>))
        k3 == StateValue(rk4_stage(metric, step_size, christoffel_h, state, <<k1, k2>>))
        k4 == StateValue(rk4_stage(metric, step_size, christoffel_h, state,
                                   <<k1, k2, k3>>))
    IN  StateValue(rk4_combine(step_size, state, <<k1, k2, k3, k4>>))

\* ------------------------------------------------------------------------
\* srfm::tensor::GeodesicDeviationCalculator
\* ------------------------------------------------------------------------

\* manifold::SpacetimeEvent
SpacetimeEvent(time, price, volume, momentum) ==
    [time |-> time, price |-> price, volume |-> volume, momentum |-> momentum]

\* GeodesicSignal{geodesic_deviation, proper_time, is_valid}
GeodesicSignal(geodesic_deviation, proper_time, is_valid) ==
    [geodesic_deviation |-> geodesic_deviation,
     proper_time |-> proper_time,
     is_valid |-> is_valid]

\* Element i (counted from 0, as in the source) of a std::vector.
At(v, k) == v[k + 1]

\* GeodesicDeviationCalculator::to_point
to_point(ev) == Vec4(ev.time, ev.price, ev.volume, ev.momentum)

\* the all_finite lambda of compute
all_finite(p) == \A k \in Idx : IsFinite(p[k])

\* std::numeric_limits<double>::epsilon() * 100.0 (2.2e-14)
NORM_FLOOR == Quantize(1, 2000000000)

\* GeodesicDeviationCalculator::estimate_velocity
\* estimate_velocity without the division by the norm.
estimate_velocity_Unnormalised(p0, p1) ==
    LET u == VecSub(p1, p0)
        norm == VecNorm(u)
    IN  IF ~IsFinite(norm) \/ flt(norm, NORM_FLOOR)
        THEN Vec4(ONE, 0, 0, 0)
        ELSE u

estimate_velocity(p0, p1) ==
    LET u == VecSub(p1, p0)
        norm == VecNorm(u)
    IN  IF ~IsFinite(norm) \/ flt(norm, NORM_FLOOR)
        THEN Vec4(ONE, 0, 0, 0)
        ELSE VecDiv(u, norm)

\* GeodesicDeviationCalculator::spatial_deviation
\* spatial_deviation with the time component among the differences.
spatial_deviation_WithTime(actual, geodesic) ==
    LET d0 == fsub(actual[0], geodesic[0])
        d1 == fsub(actual[1], geodesic[1])
        d2 == fsub(actual[2], geodesic[2])
        d3 == fsub(actual[3], geodesic[3])
        sq == fadd(fadd(fadd(fmul(d0, d0), fmul(d1, d1)), fmul(d2, d2)), fmul(d3, d3))
    IN  IF ~IsFinite(sq) THEN 0 ELSE fsqrt(sq)

spatial_deviation(actual, geodesic) ==
    LET d1 == fsub(actual[1], geodesic[1])
        d2 == fsub(actual[2], geodesic[2])
        d3 == fsub(actual[3], geodesic[3])
        sq == fadd(fadd(fmul(d1, d1), fmul(d2, d2)), fmul(d3, d3))
    IN  IF ~IsFinite(sq) THEN 0 ELSE fsqrt(sq)

\* A faulty single-observation result, marked invalid.
SingleEventResult_Invalid == <<GeodesicSignal(0, 0, FALSE)>>

\* compute: the result returned for a single observation.
SingleEventResult == <<GeodesicSignal(0, 0, TRUE)>>

\* A faulty guard that looks at the first point only.
FirstTwoNotFinite_FirstOnly(points) == ~all_finite(At(points, 0))

\* A faulty guard that rejects the series when any of its points is not
\* finite.
FirstTwoNotFinite_AnyPoint(points) ==
    \E k \in 1..Len(points) : ~all_finite(points[k])

\* compute: the guard on the first two points.
FirstTwoNotFinite(points) ==
    ~all_finite(At(points, 0)) \/ ~all_finite(At(points, 1))

\* compute: the all-invalid result of the guard, n copies of {0.0, 0.0, false}.
AllInvalidResult(n) == [k \in 1..n |-> GeodesicSignal(0, 0, FALSE)]

\* A faulty request of one step for each observation.
IntegrateSteps_OnePerObservation(n) == n

\* compute: the number of steps it asks integrate for.
IntegrateSteps(n) == n - 1

\* integrate, line 65: the loop test.
IntegrateLoopContinues(i_, steps_) == i_ < steps_

\* integrate, line 60: reserve(static_cast<size_t>(steps) + 1) throws
\* std::length_error when the count exceeds the vector's max_size().  The
\* conversion to the 64-bit unsigned size_t turns steps = -1 into 2^64 - 1,
\* which the addition wraps to 0; any smaller steps gives a count of at
\* least 2^64 - 2^31, beyond max_size().
reserve_throws(steps_) == steps_ < 0 - 1

\* compute: the proper time recorded for bar k.
ProperTimeOf(k, step_size) == fmul(FromInt(k), DEFAULT_GEODESIC_STEP)

\* compute: the body of the output loop for bar k.
BuildSignal(actual, geodesic, k, step_size) ==
    LET valid0 == all_finite(actual) /\ all_finite(geodesic)
        dev0 == IF valid0 THEN spatial_deviation(actual, geodesic) ELSE 0
        valid == valid0 /\ IsFinite(dev0)
        deviation == IF valid THEN dev0 ELSE 0
    IN  GeodesicSignal(deviation, ProperTimeOf(k, step_size), valid)

\* A faulty output loop that stops one bar early.
BuildLoopContinues_OffByOne(k, n) == k + 1 < n

\* compute: the condition of the output loop.
BuildLoopContinues(k, n) == k < n

\* GeodesicSolver::integrate as a function of the solver's members and its
\* arguments: the trajectory of steps steps from (x, u).
RECURSIVE integrate(_, _, _, _, _)
integrate(metric, step_size, x, u, steps_) ==
    IF ~IntegrateLoopContinues(0, steps_) THEN <<GeodesicState(x, u)>>
    ELSE LET t == integrate(metric, step_size, x, u, steps_ - 1)
         IN  Append(t, rk4_step(metric, step_size, DEFAULT_FD_STEP, t[Len(t)]))

\* GeodesicDeviationCalculator::compute as a function of the calculator's
\* members and its argument.
compute(metric, step_size, evs) ==
    LET n == Len(evs)
        points == [k \in 1..n |-> to_point(evs[k])]
    IN  IF n = 0 THEN <<>>
        ELSE IF n = 1 THEN SingleEventResult
        ELSE IF FirstTwoNotFinite(points) THEN AllInvalidResult(n)
        ELSE LET u == estimate_velocity(At(points, 0), At(points, 1))
                 t == integrate(metric, step_size, At(points, 0), u, IntegrateSteps(n))
             IN  [k \in 1..n |->
                     BuildSignal(At(points, k - 1), At(t, k - 1).position, k - 1,
                                 step_size)]

\* ------------------------------------------------------------------------
\* srfm::manifold::MetricTensor / SpacetimeManifold
\* ------------------------------------------------------------------------

DIM == 4

DimIdx == 0..(DIM - 1)

NUM_CHRISTOFFEL == DIM * DIM * DIM

\* manifold::MetricTensor with diagonal (g00, g11, g22, g33) and every
\* off-diagonal entry equal to off.
DiagMetric(g00, g11, g22, g33, off) ==
    [mu \in DimIdx |-> [nu \in DimIdx |->
        IF mu # nu THEN off
        ELSE IF mu = 0 THEN g00
        ELSE IF mu = 1 THEN g11
        ELSE IF mu = 2 THEN g22
        ELSE g33]]

\* MetricTensor::minkowski
minkowski == DiagMetric(fneg(ONE), ONE, ONE, ONE, 0)

\* is_valid without its two sign checks: only the finiteness of the entries.
is_valid_FiniteOnly(g) ==
    \A mu \in DimIdx : \A nu \in DimIdx : IsFinite(g[mu][nu])

\* MetricTensor::is_valid
is_valid(g) ==
    /\ \A mu \in DimIdx : \A nu \in DimIdx : IsFinite(g[mu][nu])
    /\ ~(g[0][0] >= 0)
    /\ \A k \in 1..(DIM - 1) : ~(g[k][k] <= 0)

\* MetricTensor::inverse_diagonal
inverse_diagonal(g) ==
    IF \E k \in DimIdx : ~IsFinite(g[k][k]) \/ g[k][k] = 0
    THEN Nullopt
    ELSE Some([mu \in DimIdx |-> [nu \in DimIdx |->
                  IF mu = nu THEN fdiv(ONE, g[mu][mu]) ELSE 0]])

\* christoffel_index
christoffel_index(lambda, mu, nu) == lambda * DIM * DIM + mu * DIM + nu

\* The all-zero array of connection coefficients.
ChristoffelZero == [idx \in 0..(NUM_CHRISTOFFEL - 1) |-> 0]

\* christoffelSymbols, the sigma loop for one lambda: every metric derivative
\* is the literal 0.0, so each term is 0.5 * g_inv[lambda][sigma] * 0.
christoffel_val(g_inv, lambda) ==
    LET d == fsub(fadd(0, 0), 0)
        T(sigma) == fmul(fmul(ONE \div 2, g_inv[lambda][sigma]), d)
    IN  fadd(fadd(fadd(fadd(0, T(0)), T(1)), T(2)), T(3))

\* SpacetimeManifold::christoffelSymbols
christoffelSymbols(metric) ==
    IF ~is_valid(metric) THEN ChristoffelZero
    ELSE LET inv_opt == inverse_diagonal(metric)
         IN  IF ~inv_opt.has_value THEN ChristoffelZero
             ELSE [idx \in 0..(NUM_CHRISTOFFEL - 1) |->
                      christoffel_val(inv_opt.value, idx \div (DIM * DIM))]

\* ------------------------------------------------------------------------
\* srfm::geodesic::GeodesicSolver  (final-state integrator)
\* ------------------------------------------------------------------------

\* geodesic::GeodesicState{x, u}
SolverState(x, u) == [x |-> x, u |-> u]

\* A faulty is_finite that looks at the position only.
is_finite_PositionOnly(s) == \A k \in DimIdx : IsFinite(s.x[k])

\* GeodesicState::is_finite
is_finite(s) == \A k \in DimIdx : IsFinite(s.x[k]) /\ IsFinite(s.u[k])

\* geodesic_acceleration, the (mu, nu) loops for one lambda.
AccelSum(gamma, u, lambda) ==
    LET T(mu, nu) == fmul(fmul(gamma[christoffel_index(lambda, mu, nu)], u[mu]), u[nu])
        r0 == fadd(fadd(fadd(fadd(0, T(0, 0)), T(0, 1)), T(0, 2)), T(0, 3))
        r1 == fadd(fadd(fadd(fadd(r0, T(1, 0)), T(1, 1)), T(1, 2)), T(1, 3))
        r2 == fadd(fadd(fadd(fadd(r1, T(2, 0)), T(2, 1)), T(2, 2)), T(2, 3))
    IN  fadd(fadd(fadd(fadd(r2, T(3, 0)), T(3, 1)), T(3, 2)), T(3, 3))

\* geodesic_acceleration: a[lambda] = -Gamma^lambda_mu_nu u^mu u^nu
geodesic_acceleration(gamma, u) ==
    Vec4(fneg(AccelSum(gamma, u, 0)), fneg(AccelSum(gamma, u, 1)),
         fneg(AccelSum(gamma, u, 2)), fneg(AccelSum(gamma, u, 3)))

\* rk4_step, lines 55-76: the intermediate state s + c * dt * (v, a).
StageState(s, c_dt, v, a) ==
    SolverState(Vec4(fadd(s.x[0], fmul(c_dt, v[0])), fadd(s.x[1], fmul(c_dt, v[1])),
                     fadd(s.x[2], fmul(c_dt, v[2])), fadd(s.x[3], fmul(c_dt, v[3]))),
                Vec4(fadd(s.u[0], fmul(c_dt, a[0])), fadd(s.u[1], fmul(c_dt, a[1])),
                     fadd(s.u[2], fmul(c_dt, a[2])), fadd(s.u[3], fmul(c_dt, a[3]))))

\* rk4_step, lines 83-84: s + (dt / 6) * (k1 + 2 k2 + 2 k3 + k4), one component.
Combine(base, dt, k1, k2, k3, k4) ==
    fadd(base,
         fmul(fdiv(dt, 6 * ONE),
              fadd(fadd(fadd(k1, fmul(2 * ONE, k2)), fmul(2 * ONE, k3)), k4)))

\* A faulty check that looks at the velocity components only.
OutIsFinite_VelocityOnly(out) == \A k \in DimIdx : IsFinite(out.u[k])

\* rk4_step, line 86: the check on the components of the combined state.
OutIsFinite(out) == \A k \in DimIdx : IsFinite(out.x[k]) /\ IsFinite(out.u[k])

\* rk4_step, lines 54, 62, 70 and 78: acceleration number Len(as) + 1 of a
\* step from s, evaluated at the velocity of the latest intermediate state
\* (ss = <<s2, ...>>), or of s itself for the first.
rk4_accel(s, christoffel_, as, ss) ==
    geodesic_acceleration(christoffel_, IF Len(as) = 0 THEN s.u ELSE ss[Len(as)].u)

\* rk4_step, lines 55-59, 63-67 and 71-75: the intermediate state that
\* follows the accelerations as = <<a1, ...>> (s2 after a1, s3 after a2, s4
\* after a3).
rk4_next_state(s, dt_, as, ss) ==
    LET n == Len(as)
        v == IF n = 1 THEN s.u ELSE ss[n - 1].u
        c_dt == IF n = 3 THEN dt_ ELSE fmul(ONE \div 2, dt_)
    IN  StageState(s, c_dt, v, as[n])

\* rk4_step, lines 80-90: the combined state, or nullopt when one of its
\* components is not finite.
rk4_out(s, dt_, as, ss) ==
    LET out == SolverState(
                 Vec4(Combine(s.x[0], dt_, s.u[0], ss[1].u[0], ss[2].u[0], ss[3].u[0]),
                      Combine(s.x[1], dt_, s.u[1], ss[1].u[1], ss[2].u[1], ss[3].u[1]),
                      Combine(s.x[2], dt_, s.u[2], ss[1].u[2], ss[2].u[2], ss[3].u[2]),
                      Combine(s.x[3], dt_, s.u[3], ss[1].u[3], ss[2].u[3], ss[3].u[3])),
                 Vec4(Combine(s.u[0], dt_, as[1][0], as[2][0], as[3][0], as[4][0]),
                      Combine(s.u[1], dt_, as[1][1], as[2][1], as[3][1], as[4][1]),
                      Combine(s.u[2], dt_, as[1][2], as[2][2], as[3][2], as[4][2]),
                      Combine(s.u[3], dt_, as[1][3], as[2][3], as[3][3], as[4][3])))
    IN  IF OutIsFinite(out) THEN Some(out) ELSE Nullopt

\* The stand-in for solve's cap of 100'000 steps.
MAX_STEPS == 5

\* The bounds of solve's step size, 1e-8 and 1.0.
DT_MIN == Quantize(1, 100000000)

DT_MAX == ONE

\* A faulty clamp that enforces the upper bound only.
clamp_int_NoLowerBound(v, lo, hi) == IF hi < v THEN hi ELSE v

\* std::clamp on int
clamp_int(v, lo, hi) == IF v < lo THEN lo ELSE IF hi < v THEN hi ELSE v

\* A faulty clamp on double that enforces the lower bound only.
clamp_double_NoUpperBound(v, lo, hi) == IF flt(v, lo) THEN lo ELSE v

\* std::clamp on double: two comparisons, both false for a NaN v.
clamp_double(v, lo, hi) == IF flt(v, lo) THEN lo ELSE IF flt(hi, v) THEN hi ELSE v

\* A faulty loop condition that admits one iteration more.
LoopContinues_Inclusive(step_, clamped_steps_) == step_ <= clamped_steps_

\* solve: the condition of the integration loop.
LoopContinues(step_, clamped_steps_) == step_ < clamped_steps_

\* ------------------------------------------------------------------------
\* srfm::lorentz::BetaCalculator, LorentzTransform  (src/src/lorentz)
\* srfm::manifold::SpacetimeInterval, MarketManifold  (src/src/manifold)
\* ------------------------------------------------------------------------

\* 0.9999
BETA_MAX_SAFE == Quantize(9999, 10000)

\* 1e-15 and 1e-12 lie below the grid's resolution: the smallest positive
\* grid value stands for each.
BETA_CLAMP_MARGIN == 1

FLOAT_EPSILON == 1

SPEED_OF_INFORMATION == ONE

\* std::abs
fabs(a) == CHOOSE r \in { IF IsNaN(x) THEN NAN ELSE Abs(x) : x \in {a} } : TRUE

\* a <= b  (false when either operand is NaN)
fle(a, b) == CHOOSE r \in { ~IsNaN(x) /\ ~IsNaN(y) /\ x <= y : x \in {a}, y \in {b} } : TRUE

\* std::min(a, b): b when b < a, else a.
fmin(a, b) == IF flt(b, a) THEN b ELSE a

BetaVelocity(value) == [value |-> value]

LorentzFactor(value) == [value |-> value]

\* beta_calculator.cpp, ratio_to_beta
ratio_to_beta(raw_ratio) ==
    LET abs_ratio == fabs(raw_ratio)
        clamped   == fmin(abs_ratio, fsub(BETA_MAX_SAFE, 0))
    IN  BetaVelocity(fmin(clamped, fsub(BETA_MAX_SAFE, BETA_CLAMP_MARGIN)))

\* BetaCalculator::fromPriceVelocity
fromPriceVelocity(price_velocity, max_velocity) ==
    IF ~IsFinite(price_velocity) THEN Nullopt
    ELSE IF fle(max_velocity, 0) THEN Nullopt
    ELSE Some(ratio_to_beta(fdiv(fabs(price_velocity), max_velocity)))

\* meanAbsVelocity, lines 86-100: the velocity estimate at index k (0-based)
\* of n prices.
VelocityAt(prices, k, time_delta) ==
    LET n == Len(prices)
    IN  IF k = 0 THEN fdiv(fsub(At(prices, 1), At(prices, 0)), time_delta)
        ELSE IF k = n - 1
             THEN fdiv(fsub(At(prices, n - 1), At(prices, n - 2)), time_delta)
        ELSE fdiv(fsub(At(prices, k + 1), At(prices, k - 1)),
                  fmul(2 * ONE, time_delta))

\* meanAbsVelocity, the running sum total_abs_v after indices 0..k-1.
RECURSIVE TotalAbsVelocity(_, _, _)
TotalAbsVelocity(prices, k, time_delta) ==
    IF k = 0 THEN 0
    ELSE fadd(TotalAbsVelocity(prices, k - 1, time_delta),
              fabs(VelocityAt(prices, k - 1, time_delta)))

\* BetaCalculator::meanAbsVelocity
meanAbsVelocity(prices, time_delta) ==
    IF Len(prices) < 2 THEN Nullopt
    ELSE IF fle(time_delta, 0) THEN Nullopt
    ELSE IF \E k \in 1..Len(prices) : ~IsFinite(prices[k]) THEN Nullopt
    ELSE Some(fdiv(TotalAbsVelocity(prices, Len(prices), time_delta),
                   FromInt(Len(prices))))

\* std::span::subspan(offset, count)
subspan(s, offset, count) == [k \in 1..count |-> s[offset + k]]

\* BetaCalculator::fromRollingWindow
fromRollingWindow(prices, window, max_velocity, time_delta) ==
    IF window < 2 THEN Nullopt
    ELSE IF window > Len(prices) THEN Nullopt
    ELSE IF fle(max_velocity, 0) THEN Nullopt
    ELSE LET vel == meanAbsVelocity(subspan(prices, Len(prices) - window, window),
                                    time_delta)
         IN  IF ~vel.has_value THEN Nullopt
             ELSE fromPriceVelocity(vel.value, max_velocity)

\* LorentzTransform::isValidBeta
isValidBeta(beta) == IsFinite(beta) /\ flt(fabs(beta), BETA_MAX_SAFE)

\* LorentzTransform::gamma
gamma(beta) ==
    IF ~isValidBeta(beta.value) THEN Nullopt
    ELSE LET beta2 == fmul(beta.value, beta.value)
             denom == fsqrt(fsub(ONE, beta2))
         IN  IF fle(denom, 0) THEN Nullopt
             ELSE Some(LorentzFactor(fdiv(ONE, denom)))

\* SpacetimeInterval::compute
SpacetimeInterval_compute(a, b, c_market) ==
    IF \/ ~IsFinite(a.time) \/ ~IsFinite(b.time)
       \/ ~IsFinite(a.price) \/ ~IsFinite(b.price)
       \/ ~IsFinite(a.volume) \/ ~IsFinite(b.volume)
       \/ ~IsFinite(a.momentum) \/ ~IsFinite(b.momentum)
       \/ ~IsFinite(c_market) \/ fle(c_market, 0)
    THEN Nullopt
    ELSE LET d_t == fsub(b.time, a.time)
             dp  == fsub(b.price, a.price)
             dv  == fsub(b.volume, a.volume)
             dm  == fsub(b.momentum, a.momentum)
             time_term    == fmul(fmul(fmul(c_market, c_market), d_t), d_t)
             spatial_term == fadd(fadd(fmul(dp, dp), fmul(dv, dv)), fmul(dm, dm))
         IN  Some(fsub(spatial_term, time_term))

\* SpacetimeInterval::classify
SpacetimeInterval_classify(interval_squared) ==
    IF fle(fabs(interval_squared), FLOAT_EPSILON) THEN "Lightlike"
    ELSE IF flt(interval_squared, 0) THEN "Timelike"
    ELSE "Spacelike"

\* MarketManifold::classify
MarketManifold_classify(a, b) ==
    LET ds2 == SpacetimeInterval_compute(a, b, SPEED_OF_INFORMATION)
    IN  IF ~ds2.has_value THEN Nullopt
        ELSE Some(SpacetimeInterval_classify(ds2.value))

\* ------------------------------------------------------------------------
\* srfm::core::Engine, streaming mode  (src/src/core/engine.cpp)
\* ------------------------------------------------------------------------

\* Longest run of process_stream_bar calls without a reset.
MaxBars == 6

\* The width of the window of closes that beta is computed from.
WINDOW == 5

OHLCV(timestamp, open, high, low, close, volume) ==
    [timestamp |-> timestamp, open |-> open, high |-> high, low |-> low,
     close |-> close, volume |-> volume]

EngineConfig(max_market_velocity) == [max_market_velocity |-> max_market_velocity]

\* Engine::compute_betas, lines 195-210: the beta of index k (0-based).
BetaAt(prices, k, max_velocity) ==
    LET win_size == IF k + 1 < WINDOW THEN k + 1 ELSE WINDOW
        start    == k + 1 - win_size
        window   == subspan(prices, start, win_size)
        b        == fromRollingWindow(window, win_size, max_velocity, ONE)
    IN  IF win_size >= 2 /\ b.has_value THEN b.value ELSE BetaVelocity(0)

\* Engine::compute_betas
compute_betas(prices, max_velocity) ==
    IF Len(prices) = 0 \/ fle(max_velocity, 0) THEN <<>>
    ELSE [k \in 1..Len(prices) |-> BetaAt(prices, k - 1, max_velocity)]

\* Engine::to_event
to_event(bar, momentum_indicator) ==
    SpacetimeEvent(bar.timestamp, bar.close, bar.volume, momentum_indicator)

\* Engine::process_stream_bar, lines 92-141: the PipelineBar of the newest
\* bar of a window of two bars or more.
PipelineBarOf(window, config) ==
    LET n    == Len(window)
        prev == At(window, n - 2)
        curr == At(window, n - 1)
        price_return ==
            IF IsFinite(prev.close) /\ flt(0, prev.close) /\ IsFinite(curr.close)
            THEN fdiv(fsub(curr.close, prev.close), prev.close)
            ELSE 0
        window_size   == IF n < WINDOW THEN n ELSE WINDOW
        start         == n - window_size
        window_closes == [k \in 1..window_size |-> At(window, start + k - 1).close]
        betas == compute_betas(window_closes, config.max_market_velocity)
        beta  == IF Len(betas) # 0 THEN At(betas, Len(betas) - 1) ELSE BetaVelocity(0)
        g     == gamma(beta)
        event == to_event(curr, fmul(price_return, curr.volume))
        cls   == MarketManifold_classify(to_event(prev, 0), event)
    IN  [raw           |-> curr,
         price_return  |-> price_return,
         beta          |-> beta,
         gamma         |-> IF g.has_value THEN g.value ELSE LorentzFactor(ONE),
         event         |-> event,
         interval_type |-> IF cls.has_value THEN cls.value ELSE "Timelike"]

\* process_stream_bar, line 88: the warm-up test on the window after the
\* push, with the threshold one bar too high.
InWarmUp_ThreeBars(window) == Len(window) < 3

\* process_stream_bar, line 88: the warm-up test on the window after the push.
InWarmUp(window) == Len(window) < 2

\* ------------------------------------------------------------------------
\* srfm::CoordinateNormalizer  (src/src/manifold/normalizer.cpp)
\* ------------------------------------------------------------------------

\* Most normalize calls between two resets.
MaxNormalize == 5

\* 1e-9
FLAT_STDDEV_THRESHOLD == Quantize(1, 1000000000)

\* CoordinateNormalizer::CoordinateNormalizer: the window is at least 1.
NormalizerWindow(window) == IF window < 1 THEN 1 ELSE window

\* A push that never evicts.
push_NoEvict(buf, value, max_size) == Append(buf, value)

\* CoordinateNormalizer::push
push(buf, value, max_size) ==
    LET pushed == Append(buf, value)
    IN  IF Len(pushed) > max_size THEN Tail(pushed) ELSE pushed

\* The sum of the first k values of buf, added in order.
RECURSIVE BufSum(_, _)
BufSum(buf, k) == IF k = 0 THEN 0 ELSE fadd(BufSum(buf, k - 1), buf[k])

\* CoordinateNormalizer::rolling_mean
rolling_mean(buf) == fdiv(BufSum(buf, Len(buf)), FromInt(Len(buf)))

\* rolling_stddev, lines 54-58: sq_sum after the first k values.
RECURSIVE SqSum(_, _, _)
SqSum(buf, mean, k) ==
    IF k = 0 THEN 0
    ELSE LET d == fsub(buf[k], mean)
         IN  fadd(SqSum(buf, mean, k - 1), fmul(d, d))

\* CoordinateNormalizer::rolling_stddev
rolling_stddev(buf, mean) ==
    IF Len(buf) < 2 THEN 0
    ELSE fsqrt(fdiv(SqSum(buf, mean, Len(buf)), FromInt(Len(buf) - 1)))

\* CoordinateNormalizer::zscore
zscore(value, buf) ==
    IF Len(buf) = 0 THEN 0
    ELSE LET m == rolling_mean(buf)
             s == rolling_stddev(buf, m)
         IN  IF flt(s, FLAT_STDDEV_THRESHOLD) THEN 0
             ELSE fdiv(fsub(value, m), s)

\* ------------------------------------------------------------------------
\* srfm::simd: the beta batch kernels and BetaCalculator  (src/src/simd)
\* ------------------------------------------------------------------------

\* Most computeBetaBatch calls between two resets.
MaxBatches == 3

SimdLevels == { "SCALAR", "SSE42", "AVX2", "AVX512F" }

\* BETA_MAX_SAFE - 1.0e-10, the margin being below the grid's resolution.
BETA_CLAMP_LIMIT == fsub(BETA_MAX_SAFE, 1)

\* The element of _mm256_max_pd / _mm512_max_pd (VMAXPD): the first operand
\* when it is greater than the second, in every other case, a NaN operand
\* included, the second.
max_pd(a, b) == IF flt(b, a) THEN a ELSE b

\* The element of _mm256_min_pd / _mm512_min_pd (VMINPD).
min_pd(a, b) == IF flt(a, b) THEN a ELSE b

\* The scalar loop of pass 1: batch_max after the elements from + 1 .. to
\* (1-based), starting from batch_max = init.
RECURSIVE ScalarBatchMax(_, _, _, _)
ScalarBatchMax(velocities, from, to, init) ==
    IF to <= from THEN init
    ELSE LET before == ScalarBatchMax(velocities, from, to - 1, init)
             a      == fabs(velocities[to])
         IN  IF flt(before, a) THEN a ELSE before

\* The vector loop of pass 1: vmax after the first blocks blocks of lane
\* elements.
RECURSIVE VectorMax(_, _, _)
VectorMax(velocities, blocks, lane) ==
    IF blocks = 0 THEN [l \in 1..lane |-> 0]
    ELSE LET before == VectorMax(velocities, blocks - 1, lane)
         IN  [l \in 1..lane |->
                 max_pd(before[l], fabs(velocities[(blocks - 1) * lane + l]))]

\* beta_avx2.cpp, hmax_pd_avx2
hmax_pd_avx2(v) == max_pd(max_pd(v[1], v[3]), max_pd(v[2], v[4]))

\* _mm512_reduce_max_pd, as the compiler's header expands it: the upper
\* half against the lower half, three times.
reduce_max_pd(v) ==
    LET t3 == [k \in 1..4 |-> max_pd(v[4 + k], v[k])]
        t6 == [k \in 1..2 |-> max_pd(t3[2 + k], t3[k])]
    IN  max_pd(t6[1], t6[2])

\* Pass 2, scalar: one beta.
ScalarBeta(v, denom) ==
    LET beta == fdiv(fabs(v), denom)
    IN  IF flt(BETA_CLAMP_LIMIT, beta) THEN BETA_CLAMP_LIMIT ELSE beta

\* Pass 2, vector: one lane.
VectorBeta(v, denom) == min_pd(fdiv(fabs(v), denom), BETA_CLAMP_LIMIT)

\* "if (batch_max > running_max) running_max = batch_max;"
AdvanceRunningMax(running_max, batch_max) ==
    IF flt(running_max, batch_max) THEN batch_max ELSE running_max

\* What a kernel whose vector loops cover the first vec_count elements
\* leaves in running_max and in out, hmax being the horizontal maximum of
\* pass 1.
KernelResult(velocities, running_max, vec_count, hmax) ==
    LET n         == Len(velocities)
        batch_max == ScalarBatchMax(velocities, vec_count, n, hmax)
        rm        == AdvanceRunningMax(running_max, batch_max)
        denom     == IF flt(0, rm) THEN rm ELSE ONE
    IN  [running_max |-> rm,
         out |-> [k \in 1..n |-> IF k <= vec_count
                                 THEN VectorBeta(velocities[k], denom)
                                 ELSE ScalarBeta(velocities[k], denom)]]

\* detail::compute_beta_scalar
compute_beta_scalar(velocities, running_max) ==
    IF Len(velocities) = 0 THEN [running_max |-> running_max, out |-> <<>>]
    ELSE KernelResult(velocities, running_max, 0, 0)

\* detail::compute_beta_avx2
compute_beta_avx2(velocities, running_max) ==
    IF Len(velocities) = 0 THEN [running_max |-> running_max, out |-> <<>>]
    ELSE LET blocks == Len(velocities) \div 4
         IN  KernelResult(velocities, running_max, 4 * blocks,
                          hmax_pd_avx2(VectorMax(velocities, blocks, 4)))

\* detail::compute_beta_avx512
compute_beta_avx512(velocities, running_max) ==
    IF Len(velocities) = 0 THEN [running_max |-> running_max, out |-> <<>>]
    ELSE LET blocks == Len(velocities) \div 8
         IN  KernelResult(velocities, running_max, 8 * blocks,
                          reduce_max_pd(VectorMax(velocities, blocks, 8)))

\* select_beta_kernel, applied
beta_kernel(level, velocities, running_max) ==
    CASE level = "AVX512F" -> compute_beta_avx512(velocities, running_max)
      [] level = "AVX2"    -> compute_beta_avx2(velocities, running_max)
      [] OTHER             -> compute_beta_scalar(velocities, running_max)

\* srfm::simd::computeBetaBatch: the new running_max and the result.
computeBetaBatch(level, velocities, running_max) ==
    IF Len(velocities) = 0 THEN [running_max |-> running_max, result |-> <<>>]
    ELSE LET r == beta_kernel(level, velocities, running_max)
         IN  [running_max |-> r.running_max,
              result |-> [k \in 1..Len(velocities) |-> BetaVelocity(r.out[k])]]

\* ------------------------------------------------------------------------
\* srfm::simd::detect_simd_level  (src/include/srfm/simd/cpu_features.hpp)
\* ------------------------------------------------------------------------

\* Most calls of detect_simd_level by one thread.
MaxDetectCalls == 2

\* What CPUID and XCR0 report on a machine.
Cpu(max_func, sse42, avx2, avx512f, osxsave, xcr0_ymm, xcr0_zmm) ==
    [max_func |-> max_func, sse42 |-> sse42, avx2 |-> avx2, avx512f |-> avx512f,
     osxsave |-> osxsave, xcr0_ymm |-> xcr0_ymm, xcr0_zmm |-> xcr0_zmm]

\* detail::os_saves_ymm
os_saves_ymm(machine) == machine.osxsave /\ machine.xcr0_ymm

\* detail::os_saves_zmm
os_saves_zmm(machine) == os_saves_ymm(machine) /\ machine.xcr0_zmm

\* detect_simd_level, lines 155-181: the initializer of kLevel.
ProbeLevel(machine) ==
    IF machine.max_func < 1 THEN "SCALAR"
    ELSE IF machine.max_func < 7
         THEN (IF machine.sse42 THEN "SSE42" ELSE "SCALAR")
    ELSE IF machine.avx512f /\ os_saves_zmm(machine) THEN "AVX512F"
    ELSE IF machine.avx2 /\ os_saves_ymm(machine) THEN "AVX2"
    ELSE IF machine.sse42 THEN "SSE42"
    ELSE "SCALAR"

\* A test of the guard that lets in every thread that finds the value not
\* yet written.
GuardAdmits_Unsynchronised(g) == g # "done"

\* The guard of the function-local static admits the one thread that finds
\* the initialization not started.
GuardAdmits(g) == g = "uninitialised"

\* ------------------------------------------------------------------------
\* srfm::backtest: PerformanceCalculator, LorentzSignalAdjuster, Backtester,
\* ExtendedBacktester
\* ------------------------------------------------------------------------

\* constants.hpp: the shortest return series a ratio is computed from.
MIN_RETURN_SERIES_LENGTH == 30

BarData(raw_signal, beta, benchmark) ==
    [raw_signal |-> raw_signal, beta |-> BetaVelocity(beta), benchmark |-> benchmark]

GeodesicBarData(base, geodesic_deviation) ==
    [base |-> base, geodesic_deviation |-> geodesic_deviation]

\* BacktestConfig, with the max_gamma that Backtester::run reads.
BacktestConfig(risk_free_rate, annualisation, effective_mass, max_gamma) ==
    [risk_free_rate |-> risk_free_rate, annualisation |-> annualisation,
     effective_mass |-> effective_mass, max_gamma |-> max_gamma]

PerformanceMetrics(sharpe_ratio, sortino_ratio, max_dd, ir) ==
    [sharpe_ratio |-> sharpe_ratio, sortino_ratio |-> sortino_ratio,
     max_drawdown |-> max_dd, gamma_weighted_ir |-> ir]

\* performance_metrics.cpp, all_finite over a span of doubles
all_finite_span(v) == \A k \in 1..Len(v) : IsFinite(v[k])

\* std::accumulate(v.begin(), v.end(), 0.0): the first k values added in order.
RECURSIVE accumulate(_, _)
accumulate(v, k) == IF k = 0 THEN 0 ELSE fadd(accumulate(v, k - 1), v[k])

\* PerformanceCalculator::mean
mean(v) == fdiv(accumulate(v, Len(v)), FromInt(Len(v)))

\* stddev, lines 44-48: sq_sum after the first k values.
RECURSIVE SqDeviationSum(_, _, _)
SqDeviationSum(v, mean_val, k) ==
    IF k = 0 THEN 0
    ELSE fadd(SqDeviationSum(v, mean_val, k - 1),
              fmul(fsub(v[k], mean_val), fsub(v[k], mean_val)))

\* PerformanceCalculator::stddev
stddev(v, mean_val) ==
    fsqrt(fdiv(SqDeviationSum(v, mean_val, Len(v)), FromInt(Len(v) - 1)))

\* downside_stddev, lines 56-64: sq_sum after the first k values.
RECURSIVE DownsideSqSum(_, _, _)
DownsideSqSum(v, threshold, k) ==
    IF k = 0 THEN 0
    ELSE IF flt(v[k], threshold)
         THEN fadd(DownsideSqSum(v, threshold, k - 1),
                   fmul(fsub(v[k], threshold), fsub(v[k], threshold)))
         ELSE DownsideSqSum(v, threshold, k - 1)

\* downside_stddev, lines 57-64: count after the loop.
DownsideCount(v, threshold) ==
    Cardinality({ k \in 1..Len(v) : flt(v[k], threshold) })

\* PerformanceCalculator::downside_stddev
downside_stddev(v, threshold) ==
    IF DownsideCount(v, threshold) < 2 THEN 0
    ELSE fsqrt(fdiv(DownsideSqSum(v, threshold, Len(v)),
                    FromInt(DownsideCount(v, threshold) - 1)))

\* PerformanceCalculator::sharpe
sharpe(returns, risk_free_rate, annualisation) ==
    IF Len(returns) < MIN_RETURN_SERIES_LENGTH THEN Nullopt
    ELSE IF ~all_finite_span(returns) THEN Nullopt
    ELSE IF ~IsFinite(risk_free_rate) THEN Nullopt
    ELSE IF fle(annualisation, 0) THEN Nullopt
    ELSE CHOOSE r \in
             { CHOOSE q \in
                   { IF fle(sd, 0) THEN Nullopt
                     ELSE Some(fmul(fdiv(fsub(mu, risk_free_rate), sd),
                                    fsqrt(annualisation))) :
                         sd \in {stddev(returns, mu)} } : TRUE :
                 mu \in {mean(returns)} } : TRUE

\* PerformanceCalculator::sortino
sortino(returns, risk_free_rate, annualisation) ==
    IF Len(returns) < MIN_RETURN_SERIES_LENGTH THEN Nullopt
    ELSE IF ~all_finite_span(returns) THEN Nullopt
    ELSE IF ~IsFinite(risk_free_rate) THEN Nullopt
    ELSE IF fle(annualisation, 0) THEN Nullopt
    ELSE CHOOSE r \in
             { CHOOSE q \in
                   { IF fle(sd_dn, 0) THEN Nullopt
                     ELSE Some(fmul(fdiv(fsub(mu, risk_free_rate), sd_dn),
                                    fsqrt(annualisation))) :
                         sd_dn \in {downside_stddev(returns, risk_free_rate)} } : TRUE :
                 mu \in {mean(returns)} } : TRUE

\* max_drawdown, lines 123-129: one pass of the loop body.
DrawdownStep(s, r) ==
    CHOOSE t \in
        { IF flt(s.peak, equity)
          THEN [equity |-> equity, peak |-> equity, max_dd |-> s.max_dd]
          ELSE CHOOSE u \in
                  { [equity |-> equity, peak |-> s.peak,
                     max_dd |-> IF flt(s.max_dd, dd) THEN dd ELSE s.max_dd] :
                        dd \in {fdiv(fsub(s.peak, equity), s.peak)} } : TRUE :
              equity \in {fmul(s.equity, fadd(ONE, r))} } : TRUE

\* max_drawdown, lines 118-130: equity, peak and max_dd after k returns.
RECURSIVE DrawdownAfter(_, _)
DrawdownAfter(returns, k) ==
    IF k = 0 THEN [equity |-> ONE, peak |-> ONE, max_dd |-> 0]
    ELSE CHOOSE t \in { DrawdownStep(s, returns[k]) :
                          s \in {DrawdownAfter(returns, k - 1)} } : TRUE

\* PerformanceCalculator::max_drawdown
max_drawdown(returns) ==
    IF Len(returns) = 0 THEN Nullopt
    ELSE IF ~all_finite_span(returns) THEN Nullopt
    ELSE Some(DrawdownAfter(returns, Len(returns)).max_dd)

\* PerformanceCalculator::gamma_weighted_ir
gamma_weighted_ir(strategy_returns, benchmark_returns, gamma_factors) ==
    IF Len(strategy_returns) < MIN_RETURN_SERIES_LENGTH THEN Nullopt
    ELSE IF Len(benchmark_returns) # Len(strategy_returns) THEN Nullopt
    ELSE IF Len(gamma_factors) # Len(strategy_returns) THEN Nullopt
    ELSE IF ~all_finite_span(strategy_returns) THEN Nullopt
    ELSE IF ~all_finite_span(benchmark_returns) THEN Nullopt
    ELSE IF ~all_finite_span(gamma_factors) THEN Nullopt
    ELSE CHOOSE r \in
             { CHOOSE q \in
                   { CHOOSE p \in
                         { IF fle(sd_active, 0) THEN Nullopt
                           ELSE Some(fdiv(fmul(mu_active, mean(gamma_factors)),
                                          sd_active)) :
                               sd_active \in {stddev(active, mu_active)} } : TRUE :
                       mu_active \in {mean(active)} } : TRUE :
                 active \in { [k \in 1..Len(strategy_returns) |->
                                 fsub(strategy_returns[k], benchmark_returns[k])] } } : TRUE

\* LorentzSignalAdjuster::lorentz_gamma
lorentz_gamma(beta) ==
    IF ~IsFinite(beta.value) THEN Nullopt
    ELSE IF ~flt(fabs(beta.value), BETA_MAX_SAFE) THEN Nullopt
    ELSE LET denom == ByValue(fsqrt(fsub(ONE, fmul(beta.value, beta.value))))
         IN  IF fle(denom, 0) THEN Nullopt ELSE Some(fdiv(ONE, denom))

\* LorentzSignalAdjuster::adjust
adjust(effective_mass, bars) ==
    IF Len(bars) = 0 THEN Nullopt
    ELSE IF fle(effective_mass, 0) THEN Nullopt
    ELSE LET g == ByValue([k \in 1..Len(bars) |->
                      LET g_opt == lorentz_gamma(bars[k].beta)
                      IN  IF g_opt.has_value THEN g_opt.value ELSE ONE])
         IN  Some([gamma_factors    |-> g,
                   adjusted_signals |-> [k \in 1..Len(bars) |->
                       fmul(fmul(g[k], effective_mass), bars[k].raw_signal)]])

\* Backtester::compute_metrics
compute_metrics(config, returns, benchmark_returns, gamma_factors) ==
    LET sh  == sharpe(returns, config.risk_free_rate, config.annualisation)
        so  == sortino(returns, config.risk_free_rate, config.annualisation)
        mdd == max_drawdown(returns)
        ir  == gamma_weighted_ir(returns, benchmark_returns, gamma_factors)
    IN  IF ~sh.has_value THEN Nullopt
        ELSE IF ~so.has_value THEN Nullopt
        ELSE IF ~mdd.has_value THEN Nullopt
        ELSE IF ~ir.has_value THEN Nullopt
        ELSE Some(PerformanceMetrics(sh.value, so.value, mdd.value, ir.value))

\* The sign rule of Backtester::run, lines 99-100: -1 below zero, else +1
\* (a NaN signal is not >= 0).
SignOf(signal) == IF fle(0, signal) THEN ONE ELSE fneg(ONE)

\* Backtester::run, lines 94-114: max_gamma_seen after the first k bars.
RECURSIVE MaxGammaSeen(_, _)
MaxGammaSeen(gamma_mult, k) ==
    IF k = 0 THEN ONE
    ELSE CHOOSE r \in { IF flt(seen, gamma_mult[k]) THEN gamma_mult[k] ELSE seen :
                          seen \in {MaxGammaSeen(gamma_mult, k - 1)} } : TRUE

\* Backtester::run
Backtester_run(config, bars, asset_returns) ==
    IF Len(bars) < MIN_RETURN_SERIES_LENGTH THEN Nullopt
    ELSE IF Len(asset_returns) # Len(bars) THEN Nullopt
    ELSE LET corrected == ByValue(adjust(config.effective_mass, bars))
         IN  IF ~corrected.has_value THEN Nullopt
             ELSE
             LET N == 1..Len(bars)
                 benchmark   == ByValue([k \in N |-> bars[k].benchmark])
                 gammas      == corrected.value.gamma_factors
                 \* std::max(1.0, std::min(gamma_i, max_gamma_cap))
                 gamma_mult  == ByValue([k \in N |->
                                   LET m == fmin(gammas[k], config.max_gamma)
                                   IN  IF flt(ONE, m) THEN m ELSE ONE])
                 raw_returns == ByValue([k \in N |->
                                   fmul(SignOf(bars[k].raw_signal), asset_returns[k])])
                 adj_returns == ByValue([k \in N |->
                                   fmul(fmul(SignOf(corrected.value.adjusted_signals[k]),
                                             gamma_mult[k]),
                                        asset_returns[k])])
                 unit_gammas == [k \in N |-> ONE]
                 raw_metrics == ByValue(compute_metrics(config, raw_returns, benchmark,
                                                        unit_gammas))
                 adj_metrics == ByValue(compute_metrics(config, adj_returns, benchmark,
                                                        gammas))
             IN  IF ~raw_metrics.has_value THEN Nullopt
                 ELSE IF ~adj_metrics.has_value THEN Nullopt
                 ELSE
                 LET raw_ir == raw_metrics.value.gamma_weighted_ir
                     rel_ir == adj_metrics.value.gamma_weighted_ir
                 IN  Some([raw               |-> raw_metrics.value,
                           relativistic      |-> adj_metrics.value,
                           mean_gamma        |-> fdiv(accumulate(gammas, Len(bars)),
                                                      FromInt(Len(bars))),
                           max_gamma_applied |-> MaxGammaSeen(gamma_mult, Len(bars)),
                           \* 1e-12 is below the resolution
                           relativistic_lift |->
                               IF flt(Quantize(1, 1000000000), fabs(raw_ir))
                               THEN fdiv(rel_ir, raw_ir) ELSE 0])

\* rolling_p75, lines 96-102: the finite deviations of bars start..i, as a
\* bag of (position, value) pairs.
FiniteWindow(bars, start, idx) ==
    { j \in start..idx : IsFinite(bars[j].geodesic_deviation) }

\* std::nth_element followed by window[p75_idx]: the value that p75_idx
\* (counted from 0) of the others precede in sorted order.
NthElement(bars, window, nth) ==
    LET dev(j) == bars[j].geodesic_deviation
    IN  dev(CHOOSE j \in window :
              /\ Cardinality({ m \in window : dev(m) < dev(j) }) <= nth
              /\ Cardinality({ m \in window : dev(m) <= dev(j) }) > nth)

\* ExtendedBacktester::rolling_p75; bars are numbered from 1, so bar idx is
\* the source's bar i = idx - 1.
rolling_p75(rolling_window, bars, idx) ==
    LET start  == IF idx > rolling_window THEN idx - rolling_window + 1 ELSE 1
        window == FiniteWindow(bars, start, idx)
        sz     == Cardinality(window)
        \* ceil(0.75 * size) - 1, at most size - 1
        ceil_idx == (3 * sz + 3) \div 4 - 1
        p75_idx == IF sz - 1 < ceil_idx THEN sz - 1 ELSE ceil_idx
    IN  IF sz = 0 THEN 0 ELSE NthElement(bars, window, p75_idx)

\* ExtendedBacktester::geodesic_positions
geodesic_positions(rolling_window, bars) ==
    [k \in 1..Len(bars) |->
        IF /\ IsFinite(bars[k].geodesic_deviation)
           /\ flt(rolling_p75(rolling_window, bars, k), bars[k].geodesic_deviation)
        THEN ONE ELSE 0]

\* ExtendedBacktester::geodesic_returns
geodesic_returns(rolling_window, bars, asset_returns) ==
    IF Len(bars) # Len(asset_returns) THEN Nullopt
    ELSE IF Len(bars) < MIN_RETURN_SERIES_LENGTH THEN Nullopt
    ELSE LET positions == ByValue(geodesic_positions(rolling_window, bars))
         IN  Some([k \in 1..Len(bars) |->
                      LET r == fmul(positions[k], asset_returns[k])
                      IN  IF IsFinite(r) THEN r ELSE 0])

\* ExtendedBacktester::run_triple (the ticker is copied into the result and
\* read by nothing else)
run_triple(config, rolling_window, bars, asset_returns) ==
    IF Len(bars) # Len(asset_returns) THEN Nullopt
    ELSE IF Len(bars) < MIN_RETURN_SERIES_LENGTH THEN Nullopt
    ELSE LET base_bars  == ByValue([k \in 1..Len(bars) |-> bars[k].base])
             comparison == ByValue(Backtester_run(config, base_bars, asset_returns))
         IN  IF ~comparison.has_value THEN Nullopt
             ELSE
             LET geo_rets == ByValue(geodesic_returns(rolling_window, bars, asset_returns))
             IN  IF ~geo_rets.has_value THEN Nullopt
                 ELSE
                 LET unit_gamma == [k \in 1..Len(bars) |-> ONE]
                     benchmark  == ByValue([k \in 1..Len(bars) |-> base_bars[k].benchmark])
                     sh  == sharpe(geo_rets.value, config.risk_free_rate,
                                   config.annualisation)
                     so  == sortino(geo_rets.value, config.risk_free_rate,
                                    config.annualisation)
                     mdd == max_drawdown(geo_rets.value)
                     ir  == gamma_weighted_ir(geo_rets.value, benchmark, unit_gamma)
                 IN  IF ~sh.has_value \/ ~so.has_value \/ ~mdd.has_value \/ ~ir.has_value
                     THEN Nullopt
                     ELSE Some([raw          |-> comparison.value.raw,
                                relativistic |-> comparison.value.relativistic,
                                geodesic     |-> PerformanceMetrics(sh.value, so.value,
                                                                    mdd.value, ir.value)])

\* ------------------------------------------------------------------------
\* State
\* ------------------------------------------------------------------------

VARIABLES
    \* GeodesicDeviationCalculator: a compute call in progress
    events,         \* the argument of compute
    metric_,        \* the calculator's metric
    step_size_,     \* the step size the calculator (and its solver_) was built with
    pc,             \* position of the call
    actual_points,  \* compute's local vector of points
    u0,             \* compute's initial four-velocity
    trajectory,     \* integrate's local vector of states, then compute's
    ks,             \* rk4_step's slope estimates k1.. computed so far
    i,              \* the loop counter of integrate, then of the output loop
    result,         \* compute's local result vector, returned at pc = "done"
    x0,             \* integrate's arguments x0 and steps (u0 is above)
    integrate_steps,
    ret_pc,         \* where integrate returns to: into compute, or to its caller
    \* geodesic::GeodesicSolver: a solve call in progress
    initial,        \* the arguments of solve
    metric,
    steps,
    dt,
    spc,            \* position of the call
    clamped_steps,  \* solve's locals
    clamped_dt,
    christoffel,
    state,
    step,
    accels,         \* rk4_step's accelerations a1.. computed so far
    stages,         \* rk4_step's intermediate states s2.. computed so far
    rk4_calls,      \* how many times the call has invoked rk4_step
    christoffel_calls, \* how many times it has invoked christoffelSymbols
    ret,            \* the value returned, at spc = "done"
    \* tensor::ChristoffelSymbols: a compute call in progress
    cs_metric,      \* the calculator's metric
    cs_h,           \* the calculator's finite-difference step
    cs_x,           \* the argument of compute
    cs_pc,          \* position of the call
    cs_result,      \* the array returned, at cs_pc = "done"
    \* manifold::SpacetimeManifold: a christoffelSymbols call in progress
    sm_metric,      \* the argument of christoffelSymbols
    sm_pc,          \* position of the call
    sm_result,      \* the array returned, at sm_pc = "done"
    \* a second compute call on the same calculator, by another thread
    parked,         \* the locals of the call whose thread is not running
    \* core::Engine in streaming mode
    config_,        \* the engine's configuration
    stream_window_, \* the engine's bar buffer
    stream_op,      \* the last member function called: "process" or "reset"
    stream_ret,     \* what the last process_stream_bar call returned
    bars_fed,       \* process_stream_bar calls since construction or reset_stream
    bars_returned,  \* how many of them returned a PipelineBar
    \* CoordinateNormalizer
    window_,        \* the configured window size
    price_buf_,     \* the three rolling buffers
    volume_buf_,
    momentum_buf_,
    norm_op,        \* the last member function called: "normalize" or "reset"
    norm_ret,       \* what the last normalize call returned
    normalize_calls, \* normalize calls since construction or reset
    \* simd::BetaCalculator
    running_max_,   \* the calculator's running maximum
    simd_level_,    \* the SIMD level of the process
    beta_op,        \* the last member function called: "batch" or "reset"
    beta_ret,       \* what the last computeBetaBatch call returned
    max_supplied,   \* the largest |velocity| supplied since construction or reset
    batches_run,    \* computeBetaBatch calls since construction or reset
    \* detect_simd_level, called by several threads of one process
    cpu,            \* what the machine reports
    guard,          \* the guard of the static kLevel
    kLevel,         \* the static itself
    probes,         \* how many times the initializer has run
    tpc,            \* the position of each thread
    tret,           \* what each thread's last call returned
    tcalls,         \* how many calls each thread has completed
    \* backtest::ExtendedBacktester
    xb_config_,     \* config_, which base_backtester_ was built from too
    rolling_window_,
    xb_op,          \* the last operation on the backtester
    xb_bars,        \* the arguments of the last call
    xb_asset_returns,
    xb_ret          \* what the last call returned

cvars == <<events, metric_, step_size_, pc, actual_points, u0, trajectory, ks, i, result,
           x0, integrate_steps, ret_pc>>

svars == <<initial, metric, steps, dt, spc, clamped_steps, clamped_dt, christoffel,
           state, step, accels, stages, rk4_calls, christoffel_calls, ret>>

kvars == <<cs_metric, cs_h, cs_x, cs_pc, cs_result, sm_metric, sm_pc, sm_result>>

tvars == <<parked>>

evars == <<config_, stream_window_, stream_op, stream_ret, bars_fed, bars_returned>>

\* The geodesic core, and the components around it.
corevars == <<cvars, svars, kvars, tvars>>

nvars == <<window_, price_buf_, volume_buf_, momentum_buf_, norm_op, norm_ret,
           normalize_calls>>

bvars == <<running_max_, simd_level_, beta_op, beta_ret, max_supplied, batches_run>>

dvars == <<cpu, guard, kLevel, probes, tpc, tret, tcalls>>

xvars == <<xb_config_, rolling_window_, xb_op, xb_bars, xb_asset_returns, xb_ret>>

lvars == <<evars, nvars, bvars, dvars, xvars>>

vars == <<corevars, lvars>>

\* What a step of compute, of solve, of a Connection Calculator leaves alone.
notCompute == <<svars, kvars, tvars, lvars>>

notSolve == <<cvars, kvars, tvars, lvars>>

notConnection == <<cvars, svars, tvars, lvars>>

\* ------------------------------------------------------------------------
\* Inputs
\* ------------------------------------------------------------------------

\* Observations: the origin, a unit move in time and price, the same move
\* made twice, a far price whose squared distance from the others overflows,
\* a NaN time stamp and an infinite price.
EventPool ==
    { SpacetimeEvent(0, 0, 0, 0),
      SpacetimeEvent(ONE, ONE, 0, 0),
      SpacetimeEvent(2 * ONE, 2 * ONE, 0, 0),
      SpacetimeEvent(2 * ONE, 60 * ONE, 0, 0),
      SpacetimeEvent(NAN, ONE, 0, 0),
      SpacetimeEvent(2 * ONE, PINF, 0, 0) }

EventSeqs == UNION { [1..n -> EventPool] : n \in 0..MaxEvents }

\* Metrics: the flat unit metric, a singular one (zero volatility) and one
\* whose entries are so small that their reciprocals overflow.
MetricPool ==
    { make_minkowski(ONE, ONE),
      make_diagonal(ONE, <<0, ONE, ONE>>),
      make_minkowski(ONE \div 10, ONE \div 10) }

StepSizePool == { DEFAULT_GEODESIC_STEP, 2 * DEFAULT_GEODESIC_STEP }

\* Initial states of solve: the header's example (at rest, unit time flow), a
\* position two units from the edge of the finite range, a NaN position, an
\* infinite velocity, and a velocity whose multiples overflow.
InitialPool ==
    { SolverState(VecZero, Vec4(ONE, 0, 0, 0)),
      SolverState(Vec4(FMAX - 2 * ONE, 0, 0, 0), Vec4(ONE, ONE \div 2, 0, 0)),
      SolverState(Vec4(NAN, 0, 0, 0), Vec4(ONE, 0, 0, 0)),
      SolverState(VecZero, Vec4(ONE, PINF, 0, 0)),
      SolverState(VecZero, Vec4(FMAX, 0, 0, 0)) }

\* Metrics handed to solve: Minkowski, one of the wrong signature, one whose
\* diagonal is so small that its reciprocals overflow, one with a NaN entry
\* and one with finite off-diagonal entries.
SolveMetricPool ==
    { minkowski,
      DiagMetric(ONE, ONE, ONE, ONE, 0),
      DiagMetric(fneg(ONE), 0, ONE, ONE, 0),
      DiagMetric(fneg(1), ONE, ONE, 1, 0),
      DiagMetric(fneg(ONE), ONE, ONE, ONE, NAN),
      DiagMetric(fneg(ONE), ONE, ONE, ONE, ONE \div 2) }

StepsPool == { 0 - 3, 0, 1, 3, MAX_STEPS, MAX_STEPS + 1, 10000000 }

DtPool == { 0, fneg(ONE), ONE \div 2, ONE, 3 * ONE, PINF, NINF, NAN }

\* Metrics handed to the tensor Connection Calculator: flat, diagonally
\* scaled, singular everywhere, so small that its reciprocals overflow, the
\* two curved metrics of the tests, and the time-varying one of the tests,
\* which is singular exactly where x0 = -2.
ConnectionMetricPool ==
    { make_minkowski(ONE, ONE),
      make_diagonal(2 * ONE, <<ONE \div 2, ONE, 3 * ONE>>),
      make_diagonal(ONE, <<0, ONE, ONE>>),
      make_minkowski(ONE \div 10, ONE \div 10),
      CurvedSpatial(ONE \div 2),
      CurvedSpatial(ONE),
      TimeVaryingVol }

\* Points at which the connection is asked for.
PointPool ==
    { VecZero,
      Vec4(0, ONE, 0, 0),
      Vec4(ONE, 0, 0, 0),
      Vec4(fneg(2 * ONE), ONE, 0, 0),
      Vec4(ONE, 2 * ONE, ONE \div 2, 3 * ONE) }

\* Finite-difference steps: the default, and a coarse one.
FdStepPool == { DEFAULT_FD_STEP, Quantize(1, 100) }

\* Metrics a directly called trajectory integrator is built with: those of
\* the calculator, and the curved metric of the tests.
IntegrateMetricPool == MetricPool \cup { CurvedSpatial(ONE) }

\* Initial positions and tangent vectors handed to integrate.
X0Pool == { VecZero, Vec4(0, ONE, 0, 0) }

U0Pool == { VecZero, Vec4(ONE, ONE \div 2, 0, 0) }

\* Step counts handed to integrate: an int, negative ones included.
IntegrateStepsPool == (0 - 2)..MaxSteps

\* Observation sequences of two calls on one calculator: a path of three
\* observations, the same path with the time of its last observation moved,
\* and its first two observations alone.
TwoCallSeqs ==
    { <<SpacetimeEvent(0, 0, 0, 0), SpacetimeEvent(ONE, ONE, 0, 0),
        SpacetimeEvent(2 * ONE, 3 * ONE, ONE, 0)>>,
      <<SpacetimeEvent(0, 0, 0, 0), SpacetimeEvent(ONE, ONE, 0, 0),
        SpacetimeEvent(5 * ONE, 3 * ONE, ONE, 0)>>,
      <<SpacetimeEvent(0, 0, 0, 0), SpacetimeEvent(ONE, ONE, 0, 0)>> }

\* The metric of the calculator the two calls share.
TwoCallMetricPool == { make_minkowski(ONE, ONE), CurvedSpatial(ONE) }

\* There is no second call.
NoFrame == [pc |-> "none"]

\* No compute call is in progress.
ComputeIdle ==
    /\ events = <<>>
    /\ metric_ = make_minkowski(ONE, ONE)
    /\ step_size_ = DEFAULT_GEODESIC_STEP
    /\ pc = "idle"
    /\ actual_points = <<>>
    /\ u0 = VecZero
    /\ trajectory = <<>>
    /\ ks = <<>>
    /\ i = 0
    /\ result = <<>>
    /\ x0 = VecZero
    /\ integrate_steps = 0
    /\ ret_pc = "build"

\* No solve call is in progress.
SolveIdle ==
    /\ initial = SolverState(VecZero, VecZero)
    /\ metric = minkowski
    /\ steps = 0
    /\ dt = 0
    /\ spc = "idle"
    /\ clamped_steps = 0
    /\ clamped_dt = 0
    /\ christoffel = ChristoffelZero
    /\ state = SolverState(VecZero, VecZero)
    /\ step = 0
    /\ accels = <<>>
    /\ stages = <<>>
    /\ rk4_calls = 0
    /\ christoffel_calls = 0
    /\ ret = Nullopt

\* ------------------------------------------------------------------------
\* GeodesicDeviationCalculator::compute, step by step
\* ------------------------------------------------------------------------

ComputeInit ==
    /\ events \in EventSeqs
    /\ metric_ \in MetricPool
    /\ step_size_ \in StepSizePool
    /\ pc = "start"
    /\ actual_points = <<>>
    /\ u0 = VecZero
    /\ trajectory = <<>>
    /\ ks = <<>>
    /\ i = 0
    /\ result = <<>>
    /\ x0 = VecZero
    /\ integrate_steps = 0
    /\ ret_pc = "build"

\* compute, lines 85-100: the empty and single-observation returns, else the
\* conversion of the events to points.
Compute_Begin ==
    /\ pc = "start"
    /\ LET n == Len(events)
       IN  IF n = 0
           THEN /\ result' = <<>>
                /\ pc' = "done"
                /\ UNCHANGED actual_points
           ELSE IF n = 1
           THEN /\ result' = SingleEventResult
                /\ pc' = "done"
                /\ UNCHANGED actual_points
           ELSE /\ actual_points' = [k \in 1..n |-> to_point(events[k])]
                /\ pc' = "guard"
                /\ UNCHANGED result
    /\ UNCHANGED <<events, metric_, step_size_, u0, trajectory, ks, i>>
    /\ UNCHANGED <<x0, integrate_steps, ret_pc>>
    /\ UNCHANGED notCompute

\* compute, lines 102-124 and integrate, lines 59-63: the guard on the first
\* two points, else the velocity estimate and the entry into integrate.
Compute_Guard ==
    /\ pc = "guard"
    /\ IF FirstTwoNotFinite(actual_points)
       THEN /\ result' = AllInvalidResult(Len(events))
            /\ pc' = "done"
            /\ UNCHANGED <<u0, trajectory, x0, integrate_steps>>
       ELSE /\ u0' = estimate_velocity(At(actual_points, 0), At(actual_points, 1))
            /\ x0' = At(actual_points, 0)
            /\ integrate_steps' = IntegrateSteps(Len(events))
            /\ trajectory' = <<GeodesicState(x0', u0')>>
            /\ pc' = "integrate"
            /\ UNCHANGED result
    /\ i' = 0
    /\ UNCHANGED <<events, metric_, step_size_, actual_points, ks, ret_pc>>
    /\ UNCHANGED notCompute

\* integrate, line 66 and rk4_step, lines 43-46: the next slope estimate of
\* the step in progress.
RK4_Stage ==
    /\ pc = "integrate"
    /\ IntegrateLoopContinues(i, integrate_steps)
    /\ Len(ks) < 4
    /\ ks' = Append(ks, rk4_stage(metric_, step_size_, DEFAULT_FD_STEP,
                                  At(trajectory, Len(trajectory) - 1), ks))
    /\ UNCHANGED <<events, metric_, step_size_, pc, actual_points, u0, trajectory,
                   i, result>>
    /\ UNCHANGED <<x0, integrate_steps, ret_pc>>
    /\ UNCHANGED notCompute

\* rk4_step, line 49 and integrate, lines 65-68: the step is completed and
\* its state pushed onto the trajectory.
Integrate_Step ==
    /\ pc = "integrate"
    /\ IntegrateLoopContinues(i, integrate_steps)
    /\ Len(ks) = 4
    /\ trajectory' = Append(trajectory,
                            rk4_combine(step_size_,
                                        At(trajectory, Len(trajectory) - 1), ks))
    /\ ks' = <<>>
    /\ i' = i + 1
    /\ UNCHANGED <<events, metric_, step_size_, pc, actual_points, u0, result>>
    /\ UNCHANGED <<x0, integrate_steps, ret_pc>>
    /\ UNCHANGED notCompute

\* integrate, line 70: the trajectory is returned, to compute (lines 129-132,
\* which start the output loop) or to the direct caller.
Integrate_Return ==
    /\ pc = "integrate"
    /\ ~IntegrateLoopContinues(i, integrate_steps)
    /\ pc' = ret_pc
    /\ i' = 0
    /\ result' = <<>>
    /\ UNCHANGED <<events, metric_, step_size_, actual_points, u0, trajectory, ks>>
    /\ UNCHANGED <<x0, integrate_steps, ret_pc>>
    /\ UNCHANGED notCompute

\* compute, lines 132-150: one iteration of the output loop.  Reading
\* trajectory[i] beyond the trajectory's end is not defined by the language;
\* the action is then disabled and the call never returns.
Build_Signal ==
    /\ pc = "build"
    /\ BuildLoopContinues(i, Len(events))
    /\ i < Len(trajectory)
    /\ result' = Append(result,
                        BuildSignal(At(actual_points, i), At(trajectory, i).position,
                                    i, step_size_))
    /\ i' = i + 1
    /\ UNCHANGED <<events, metric_, step_size_, pc, actual_points, u0, trajectory, ks>>
    /\ UNCHANGED <<x0, integrate_steps, ret_pc>>
    /\ UNCHANGED notCompute

\* compute, line 152
Compute_Return ==
    /\ pc = "build"
    /\ ~BuildLoopContinues(i, Len(events))
    /\ pc' = "done"
    /\ UNCHANGED <<events, metric_, step_size_, actual_points, u0, trajectory, ks, i, result>>
    /\ UNCHANGED <<x0, integrate_steps, ret_pc>>
    /\ UNCHANGED notCompute

\* ------------------------------------------------------------------------
\* Two compute calls on one calculator, by two threads
\* ------------------------------------------------------------------------

\* The locals of the running call, its loop counter left out as if it were
\* a member of the calculator that the other thread resets.
Frame_CounterNotSaved ==
    [events |-> events, pc |-> pc, actual_points |-> actual_points, u0 |-> u0,
     trajectory |-> trajectory, ks |-> ks, i |-> 0, result |-> result,
     x0 |-> x0, integrate_steps |-> integrate_steps, ret_pc |-> ret_pc]

\* The locals of the running call.
Frame ==
    [events |-> events, pc |-> pc, actual_points |-> actual_points, u0 |-> u0,
     trajectory |-> trajectory, ks |-> ks, i |-> i, result |-> result,
     x0 |-> x0, integrate_steps |-> integrate_steps, ret_pc |-> ret_pc]

\* The locals of a call of compute(evs) that has not taken a step.
StartFrame(evs) ==
    [events |-> evs, pc |-> "start", actual_points |-> <<>>, u0 |-> VecZero,
     trajectory |-> <<>>, ks |-> <<>>, i |-> 0, result |-> <<>>,
     x0 |-> VecZero, integrate_steps |-> 0, ret_pc |-> "build"]

TwoCallInit ==
    /\ metric_ \in TwoCallMetricPool
    /\ step_size_ = DEFAULT_GEODESIC_STEP
    /\ events \in TwoCallSeqs
    /\ pc = "start"
    /\ actual_points = <<>>
    /\ u0 = VecZero
    /\ trajectory = <<>>
    /\ ks = <<>>
    /\ i = 0
    /\ result = <<>>
    /\ x0 = VecZero
    /\ integrate_steps = 0
    /\ ret_pc = "build"
    /\ parked \in { StartFrame(evs) : evs \in TwoCallSeqs }

\* The scheduler runs the other thread: the locals of the two calls change
\* places, the members of the calculator (metric_, solver_, step_size_) are
\* common to both.  compute and what it calls are const member functions
\* that write to their locals only, so the points at which the threads can
\* be switched need be no finer than the steps of compute.
Switch ==
    /\ parked.pc \notin {"none", "done"}
    /\ parked' = Frame
    /\ events' = parked.events
    /\ pc' = parked.pc
    /\ actual_points' = parked.actual_points
    /\ u0' = parked.u0
    /\ trajectory' = parked.trajectory
    /\ ks' = parked.ks
    /\ i' = parked.i
    /\ result' = parked.result
    /\ x0' = parked.x0
    /\ integrate_steps' = parked.integrate_steps
    /\ ret_pc' = parked.ret_pc
    /\ UNCHANGED <<metric_, step_size_>>
    /\ UNCHANGED <<svars, kvars, lvars>>

\* ------------------------------------------------------------------------
\* tensor::GeodesicSolver::integrate called directly
\* ------------------------------------------------------------------------

IntegrateInit ==
    /\ metric_ \in IntegrateMetricPool
    /\ step_size_ \in StepSizePool
    /\ x0 \in X0Pool
    /\ u0 \in U0Pool
    /\ integrate_steps \in IntegrateStepsPool
    /\ pc = "integrate_start"
    /\ ret_pc = "done"
    /\ events = <<>>
    /\ actual_points = <<>>
    /\ trajectory = <<>>
    /\ ks = <<>>
    /\ i = 0
    /\ result = <<>>

\* integrate, lines 59-63: the reservation, which may throw, and the initial
\* state pushed onto the trajectory.
Integrate_Begin ==
    /\ pc = "integrate_start"
    /\ IF reserve_throws(integrate_steps)
       THEN /\ pc' = "length_error"
            /\ UNCHANGED trajectory
       ELSE /\ trajectory' = <<GeodesicState(x0, u0)>>
            /\ pc' = "integrate"
    /\ i' = 0
    /\ UNCHANGED <<events, metric_, step_size_, actual_points, u0, ks, result>>
    /\ UNCHANGED <<x0, integrate_steps, ret_pc>>
    /\ UNCHANGED notCompute

\* ------------------------------------------------------------------------
\* GeodesicSolver::solve, step by step
\* ------------------------------------------------------------------------

SolveInit ==
    /\ initial \in InitialPool
    /\ metric \in SolveMetricPool
    /\ steps \in StepsPool
    /\ dt \in DtPool
    /\ spc = "start"
    /\ clamped_steps = 0
    /\ clamped_dt = 0
    /\ christoffel = ChristoffelZero
    /\ state = SolverState(VecZero, VecZero)
    /\ step = 0
    /\ accels = <<>>
    /\ stages = <<>>
    /\ rk4_calls = 0
    /\ christoffel_calls = 0
    /\ ret = Nullopt

\* solve, lines 102-115: the check of the initial state, the clamping of the
\* parameters, the check of the metric and the connection coefficients.
Solve_Begin ==
    /\ spc = "start"
    /\ IF ~is_finite(initial)
       THEN /\ ret' = Nullopt
            /\ spc' = "done"
            /\ UNCHANGED <<clamped_steps, clamped_dt, christoffel, christoffel_calls, state>>
       ELSE /\ clamped_steps' = clamp_int(steps, 1, MAX_STEPS)
            /\ clamped_dt' = clamp_double(dt, DT_MIN, DT_MAX)
            /\ IF ~is_valid(metric)
               THEN /\ ret' = Nullopt
                    /\ spc' = "done"
                    /\ UNCHANGED <<christoffel, christoffel_calls, state>>
               ELSE /\ christoffel' = christoffelSymbols(metric)
                    /\ christoffel_calls' = christoffel_calls + 1
                    /\ state' = initial
                    /\ spc' = "loop"
                    /\ UNCHANGED ret
    /\ UNCHANGED <<initial, metric, steps, dt, step, accels, stages, rk4_calls>>
    /\ UNCHANGED notSolve

\* solve, line 118 and rk4_step, lines 53-78: the next acceleration of the
\* step in progress and, after the first three, the intermediate state it
\* gives.  The first of them is the entry into rk4_step.
Solve_Stage ==
    /\ spc = "loop"
    /\ LoopContinues(step, clamped_steps)
    /\ Len(accels) < 4
    /\ accels' = Append(accels, rk4_accel(state, christoffel, accels, stages))
    /\ stages' = IF Len(accels) < 3
                 THEN Append(stages, rk4_next_state(state, clamped_dt, accels', stages))
                 ELSE stages
    /\ rk4_calls' = IF Len(accels) = 0 THEN rk4_calls + 1 ELSE rk4_calls
    /\ UNCHANGED <<initial, metric, steps, dt, spc, clamped_steps, clamped_dt,
                   christoffel, christoffel_calls, state, step, ret>>
    /\ UNCHANGED notSolve

\* rk4_step, lines 80-90 and solve, lines 119-120: the step is completed; its
\* state replaces the current one, or the call returns nullopt.
Solve_Step ==
    /\ spc = "loop"
    /\ LoopContinues(step, clamped_steps)
    /\ Len(accels) = 4
    /\ LET next == rk4_out(state, clamped_dt, accels, stages)
       IN  IF ~next.has_value
           THEN /\ ret' = Nullopt
                /\ spc' = "done"
                /\ UNCHANGED <<state, step>>
           ELSE /\ state' = next.value
                /\ step' = step + 1
                /\ UNCHANGED <<ret, spc>>
    /\ accels' = <<>>
    /\ stages' = <<>>
    /\ UNCHANGED <<initial, metric, steps, dt, clamped_steps, clamped_dt, christoffel,
                   christoffel_calls, rk4_calls>>
    /\ UNCHANGED notSolve

\* solve, line 123
Solve_Return ==
    /\ spc = "loop"
    /\ ~LoopContinues(step, clamped_steps)
    /\ ret' = Some(state)
    /\ spc' = "done"
    /\ UNCHANGED <<initial, metric, steps, dt, clamped_steps, clamped_dt, christoffel,
                   christoffel_calls, state, step, accels, stages, rk4_calls>>
    /\ UNCHANGED notSolve

\* ------------------------------------------------------------------------
\* The Connection Calculators, one call of each
\* ------------------------------------------------------------------------

\* No Connection Calculator call is in progress.
ConnectionIdle ==
    /\ cs_metric = make_minkowski(ONE, ONE)
    /\ cs_h = DEFAULT_FD_STEP
    /\ cs_x = VecZero
    /\ cs_pc = "idle"
    /\ cs_result = <<>>
    /\ sm_metric = minkowski
    /\ sm_pc = "idle"
    /\ sm_result = <<>>

ConnectionInit ==
    /\ cs_metric \in ConnectionMetricPool
    /\ cs_h \in FdStepPool
    /\ cs_x \in PointPool
    /\ cs_pc = "start"
    /\ cs_result = <<>>
    /\ sm_metric \in SolveMetricPool
    /\ sm_pc = "start"
    /\ sm_result = <<>>

\* ChristoffelSymbols::compute, lines 33-75: the whole call.
ChristoffelSymbols_Compute ==
    /\ cs_pc = "start"
    /\ cs_result' = ChristoffelSymbols_compute(cs_metric, cs_h, cs_x)
    /\ cs_pc' = "done"
    /\ UNCHANGED <<cs_metric, cs_h, cs_x, sm_metric, sm_pc, sm_result>>
    /\ UNCHANGED notConnection

\* SpacetimeManifold::christoffelSymbols, lines 83-139: the whole call.
SpacetimeManifold_ChristoffelSymbols ==
    /\ sm_pc = "start"
    /\ sm_result' = christoffelSymbols(sm_metric)
    /\ sm_pc' = "done"
    /\ UNCHANGED <<cs_metric, cs_h, cs_x, cs_pc, cs_result, sm_metric>>
    /\ UNCHANGED notConnection

\* ------------------------------------------------------------------------
\* Engine: process_stream_bar and reset_stream
\* ------------------------------------------------------------------------

\* Bars: two ordinary ones, and one whose close is not a number.
BarPool ==
    { OHLCV(0, ONE, ONE, ONE, ONE, ONE),
      OHLCV(ONE, ONE, 2 * ONE, ONE, ONE + ONE \div 10, 2 * ONE),
      OHLCV(2 * ONE, ONE, ONE, ONE, NAN, ONE) }

\* Configurations: the default one, and one whose velocity scale disables
\* the computation of beta.
ConfigPool == { EngineConfig(ONE), EngineConfig(0) }

\* No engine is in use.
EngineIdle ==
    /\ config_ = EngineConfig(ONE)
    /\ stream_window_ = <<>>
    /\ stream_op = "idle"
    /\ stream_ret = Nullopt
    /\ bars_fed = 0
    /\ bars_returned = 0

\* Engine::Engine: the window is empty.
EngineInit ==
    /\ config_ \in ConfigPool
    /\ stream_window_ = <<>>
    /\ stream_op = "constructed"
    /\ stream_ret = Nullopt
    /\ bars_fed = 0
    /\ bars_returned = 0

\* Engine::process_stream_bar
Engine_ProcessStreamBar ==
    /\ stream_op # "idle"
    /\ bars_fed < MaxBars
    /\ \E bar \in BarPool :
          /\ stream_window_' = Append(stream_window_, bar)
          /\ stream_ret' = IF InWarmUp(stream_window_') THEN Nullopt
                           ELSE Some(PipelineBarOf(stream_window_', config_))
    /\ stream_op' = "process"
    /\ bars_fed' = bars_fed + 1
    /\ bars_returned' = IF stream_ret'.has_value THEN bars_returned + 1
                        ELSE bars_returned
    /\ UNCHANGED config_
    /\ UNCHANGED <<corevars, xvars, nvars, bvars, dvars>>

\* Engine::reset_stream
Engine_ResetStream ==
    /\ stream_op # "idle"
    /\ stream_window_' = <<>>
    /\ stream_op' = "reset"
    /\ bars_fed' = 0
    /\ bars_returned' = 0
    /\ UNCHANGED <<config_, stream_ret>>
    /\ UNCHANGED <<corevars, xvars, nvars, bvars, dvars>>

\* ------------------------------------------------------------------------
\* CoordinateNormalizer: normalize and reset
\* ------------------------------------------------------------------------

\* Raw events: three ordinary ones and one with an infinite price.
RawEventPool ==
    { SpacetimeEvent(0, ONE, ONE, 0),
      SpacetimeEvent(ONE, 2 * ONE, ONE, ONE),
      SpacetimeEvent(2 * ONE, 4 * ONE, 3 * ONE, 0 - ONE),
      SpacetimeEvent(3 * ONE, PINF, ONE, 0) }

\* Window sizes handed to the constructor.
WindowPool == 0..3

\* CoordinateNormalizer::size
size == Len(price_buf_)

\* CoordinateNormalizer::window_size
window_size == window_

\* No normalizer is in use.
NormalizerIdle ==
    /\ window_ = 1
    /\ price_buf_ = <<>>
    /\ volume_buf_ = <<>>
    /\ momentum_buf_ = <<>>
    /\ norm_op = "idle"
    /\ norm_ret = SpacetimeEvent(0, 0, 0, 0)
    /\ normalize_calls = 0

\* CoordinateNormalizer::CoordinateNormalizer
NormalizerInit ==
    /\ window_ \in { NormalizerWindow(w) : w \in WindowPool }
    /\ price_buf_ = <<>>
    /\ volume_buf_ = <<>>
    /\ momentum_buf_ = <<>>
    /\ norm_op = "constructed"
    /\ norm_ret = SpacetimeEvent(0, 0, 0, 0)
    /\ normalize_calls = 0

\* CoordinateNormalizer::normalize
Normalizer_Normalize ==
    /\ norm_op # "idle"
    /\ normalize_calls < MaxNormalize
    /\ \E raw \in RawEventPool :
          /\ price_buf_' = push(price_buf_, raw.price, window_)
          /\ volume_buf_' = push(volume_buf_, raw.volume, window_)
          /\ momentum_buf_' = push(momentum_buf_, raw.momentum, window_)
          /\ norm_ret' = SpacetimeEvent(raw.time,
                                        zscore(raw.price, price_buf_'),
                                        zscore(raw.volume, volume_buf_'),
                                        zscore(raw.momentum, momentum_buf_'))
    /\ norm_op' = "normalize"
    /\ normalize_calls' = normalize_calls + 1
    /\ UNCHANGED window_
    /\ UNCHANGED <<corevars, xvars, evars, bvars, dvars>>

\* CoordinateNormalizer::reset
Normalizer_Reset ==
    /\ norm_op # "idle"
    /\ price_buf_' = <<>>
    /\ volume_buf_' = <<>>
    /\ momentum_buf_' = <<>>
    /\ norm_op' = "reset"
    /\ normalize_calls' = 0
    /\ UNCHANGED <<window_, norm_ret>>
    /\ UNCHANGED <<corevars, xvars, evars, bvars, dvars>>

\* ------------------------------------------------------------------------
\* simd::BetaCalculator: computeBetaBatch and reset
\* ------------------------------------------------------------------------

\* Batches of velocities: fewer than one vector, one vector with a tail,
\* one AVX-512 vector with a tail, and batches holding a NaN or an infinity.
BatchPool ==
    { <<>>,
      <<ONE>>,
      <<fneg(3 * ONE), ONE>>,
      <<ONE, 2 * ONE, ONE, 0, 4 * ONE>>,
      <<ONE, 0, ONE, 0, ONE, 6 * ONE, ONE, 0, 5 * ONE>>,
      <<5 * ONE, 0, NAN, 0>>,
      <<PINF, ONE>> }

\* The largest |v| of the first k velocities of a batch, NaN left out, and m.
RECURSIVE LargestAbs(_, _, _)
LargestAbs(velocities, k, m) ==
    IF k = 0 THEN m
    ELSE LET before == LargestAbs(velocities, k - 1, m)
             a      == fabs(velocities[k])
         IN  IF IsNaN(a) \/ a <= before THEN before ELSE a

\* No calculator is in use.
BetaIdle ==
    /\ running_max_ = 0
    /\ simd_level_ = "SCALAR"
    /\ beta_op = "idle"
    /\ beta_ret = <<>>
    /\ max_supplied = 0
    /\ batches_run = 0

\* BetaCalculator::BetaCalculator, on a machine of any SIMD level.
BetaInit ==
    /\ running_max_ = 0
    /\ simd_level_ \in SimdLevels
    /\ beta_op = "constructed"
    /\ beta_ret = <<>>
    /\ max_supplied = 0
    /\ batches_run = 0

\* BetaCalculator::computeBetaBatch
Beta_ComputeBetaBatch ==
    /\ beta_op # "idle"
    /\ batches_run < MaxBatches
    /\ \E velocities \in BatchPool :
          LET r == computeBetaBatch(simd_level_, velocities, running_max_)
          IN  /\ running_max_' = r.running_max
              /\ beta_ret' = r.result
              /\ max_supplied' = LargestAbs(velocities, Len(velocities), max_supplied)
    /\ beta_op' = "batch"
    /\ batches_run' = batches_run + 1
    /\ UNCHANGED simd_level_
    /\ UNCHANGED <<corevars, xvars, evars, nvars, dvars>>

\* BetaCalculator::reset
Beta_Reset ==
    /\ beta_op # "idle"
    /\ running_max_' = 0
    /\ beta_op' = "reset"
    /\ max_supplied' = 0
    /\ batches_run' = 0
    /\ UNCHANGED <<simd_level_, beta_ret>>
    /\ UNCHANGED <<corevars, xvars, evars, nvars, dvars>>

\* ------------------------------------------------------------------------
\* detect_simd_level, called by the threads of one process
\* ------------------------------------------------------------------------

DetectThreads == 1..3

\* Machines: no CPUID leaves, leaf 1 only with and without SSE 4.2, and
\* leaf 7 machines that differ in what the CPU and the OS support.
CpuPool ==
    { Cpu(0, FALSE, FALSE, FALSE, FALSE, FALSE, FALSE),
      Cpu(1, TRUE, FALSE, FALSE, FALSE, FALSE, FALSE),
      Cpu(1, FALSE, FALSE, FALSE, FALSE, FALSE, FALSE),
      Cpu(7, TRUE, TRUE, FALSE, TRUE, TRUE, FALSE),
      Cpu(7, TRUE, TRUE, FALSE, FALSE, FALSE, FALSE),
      Cpu(7, TRUE, TRUE, TRUE, TRUE, TRUE, TRUE),
      Cpu(7, TRUE, TRUE, TRUE, TRUE, TRUE, FALSE),
      Cpu(7, FALSE, FALSE, FALSE, TRUE, TRUE, TRUE) }

\* detect_simd_level is not in use.
DetectIdle ==
    /\ cpu = Cpu(0, FALSE, FALSE, FALSE, FALSE, FALSE, FALSE)
    /\ guard = "idle"
    /\ kLevel = "unset"
    /\ probes = 0
    /\ tpc = [t \in DetectThreads |-> "idle"]
    /\ tret = [t \in DetectThreads |-> "none"]
    /\ tcalls = [t \in DetectThreads |-> 0]

\* Process start: kLevel is not initialized and no thread is in the function.
DetectInit ==
    /\ cpu \in CpuPool
    /\ guard = "uninitialised"
    /\ kLevel = "unset"
    /\ probes = 0
    /\ tpc = [t \in DetectThreads |-> "out"]
    /\ tret = [t \in DetectThreads |-> "none"]
    /\ tcalls = [t \in DetectThreads |-> 0]

\* A thread calls detect_simd_level.
Detect_Call(t) ==
    /\ tpc[t] = "out"
    /\ tcalls[t] < MaxDetectCalls
    /\ tpc' = [tpc EXCEPT ![t] = "guard"]
    /\ UNCHANGED <<cpu, guard, kLevel, probes, tret, tcalls>>
    /\ UNCHANGED <<corevars, xvars, evars, nvars, bvars>>

\* Line 155, the guard of the static: the thread passes when kLevel is
\* initialized, enters the initializer when nobody has, and otherwise waits.
Detect_Guard(t) ==
    /\ tpc[t] = "guard"
    /\ IF guard = "done"
       THEN /\ tpc' = [tpc EXCEPT ![t] = "return"]
            /\ UNCHANGED guard
       ELSE IF GuardAdmits(guard)
       THEN /\ tpc' = [tpc EXCEPT ![t] = "probe"]
            /\ guard' = "running"
       ELSE /\ tpc' = [tpc EXCEPT ![t] = "wait"]
            /\ UNCHANGED guard
    /\ UNCHANGED <<cpu, kLevel, probes, tret, tcalls>>
    /\ UNCHANGED <<corevars, xvars, evars, nvars, bvars>>

\* Lines 155-181: the initializer runs and kLevel is written.
Detect_Probe(t) ==
    /\ tpc[t] = "probe"
    /\ kLevel' = ProbeLevel(cpu)
    /\ guard' = "done"
    /\ probes' = probes + 1
    /\ tpc' = [tpc EXCEPT ![t] = "return"]
    /\ UNCHANGED <<cpu, tret, tcalls>>
    /\ UNCHANGED <<corevars, xvars, evars, nvars, bvars>>

\* A waiting thread goes on once the initialization is complete.
Detect_Wake(t) ==
    /\ tpc[t] = "wait"
    /\ guard = "done"
    /\ tpc' = [tpc EXCEPT ![t] = "return"]
    /\ UNCHANGED <<cpu, guard, kLevel, probes, tret, tcalls>>
    /\ UNCHANGED <<corevars, xvars, evars, nvars, bvars>>

\* Line 183: return kLevel.
Detect_Return(t) ==
    /\ tpc[t] = "return"
    /\ tret' = [tret EXCEPT ![t] = kLevel]
    /\ tcalls' = [tcalls EXCEPT ![t] = tcalls[t] + 1]
    /\ tpc' = [tpc EXCEPT ![t] = "out"]
    /\ UNCHANGED <<cpu, guard, kLevel, probes>>
    /\ UNCHANGED <<corevars, xvars, evars, nvars, bvars>>

\* None of the components around the geodesic core is in use.
\* ------------------------------------------------------------------------
\* ExtendedBacktester: one backtester given series of the pools
\* ------------------------------------------------------------------------

\* Lengths of the bars and of the returns: one short of the minimum, the
\* minimum, one more, and two that differ.
TripleLengths ==
    { <<MIN_RETURN_SERIES_LENGTH - 1, MIN_RETURN_SERIES_LENGTH - 1>>,
      <<MIN_RETURN_SERIES_LENGTH, MIN_RETURN_SERIES_LENGTH>>,
      <<MIN_RETURN_SERIES_LENGTH + 1, MIN_RETURN_SERIES_LENGTH + 1>>,
      <<MIN_RETURN_SERIES_LENGTH + 1, MIN_RETURN_SERIES_LENGTH>> }

\* Asset return series of length n: a constant gain, gains and losses in
\* turn, and gains and losses with one NaN.
ReturnSeriesPool(n) ==
    { [k \in 1..n |-> ONE \div 2],
      [k \in 1..n |-> IF k % 2 = 0 THEN fneg(ONE \div 4) ELSE ONE \div 2],
      [k \in 1..n |-> IF k = 2 THEN NAN
                      ELSE IF k % 2 = 0 THEN fneg(ONE \div 4) ELSE ONE \div 2] }

\* Raw signal series of length n: constant, and changing sign every third bar.
SignalSeriesPool(n) ==
    { [k \in 1..n |-> ONE],
      [k \in 1..n |-> IF k % 3 = 0 THEN fneg(ONE) ELSE ONE] }

\* Geodesic deviation series of length n: constant, a sawtooth, and a
\* sawtooth with one NaN.
DeviationSeriesPool(n) ==
    { [k \in 1..n |-> ONE \div 100],
      [k \in 1..n |-> (k % 4) * (ONE \div 100)],
      [k \in 1..n |-> IF k = 3 THEN NAN ELSE (k % 4) * (ONE \div 100)] }

\* Bars with beta 0.3 and benchmark 0, as the validation tests build them.
GeodesicBarPool(n) ==
    { [k \in 1..n |-> GeodesicBarData(BarData(sig[k], Quantize(3, 10), 0), dev[k])] :
          sig \in SignalSeriesPool(n), dev \in DeviationSeriesPool(n) }

\* Configurations: risk-free rate 0 and weekly annualisation (the default
\* of 252 is above the largest value held), effective mass 1 and 0.
BacktestConfigPool ==
    { BacktestConfig(0, FromInt(52), mass, 2 * ONE) : mass \in {ONE, 0} }

RollingWindowPool == {4, 100}

\* No ExtendedBacktester is in use.
TripleIdle ==
    /\ xb_config_ = BacktestConfig(0, 0, 0, 0)
    /\ rolling_window_ = 0
    /\ xb_op = "idle"
    /\ xb_bars = <<>>
    /\ xb_asset_returns = <<>>
    /\ xb_ret = Nullopt

\* ExtendedBacktester::ExtendedBacktester
TripleInit ==
    /\ xb_config_ \in BacktestConfigPool
    /\ rolling_window_ \in RollingWindowPool
    /\ xb_op = "constructed"
    /\ xb_bars = <<>>
    /\ xb_asset_returns = <<>>
    /\ xb_ret = Nullopt

\* ExtendedBacktester::run_triple
Triple_RunTriple ==
    /\ xb_op # "idle"
    /\ \E len \in TripleLengths :
       \E bars \in GeodesicBarPool(len[1]), asset_returns \in ReturnSeriesPool(len[2]) :
          /\ xb_bars' = bars
          /\ xb_asset_returns' = asset_returns
          /\ xb_ret' = run_triple(xb_config_, rolling_window_, bars, asset_returns)
    /\ xb_op' = "run_triple"
    /\ UNCHANGED <<xb_config_, rolling_window_>>
    /\ UNCHANGED <<corevars, evars, nvars, bvars, dvars>>

\* ExtendedBacktester::geodesic_returns
Triple_GeodesicReturns ==
    /\ xb_op # "idle"
    /\ \E len \in TripleLengths :
       \E bars \in GeodesicBarPool(len[1]), asset_returns \in ReturnSeriesPool(len[2]) :
          /\ xb_bars' = bars
          /\ xb_asset_returns' = asset_returns
          /\ xb_ret' = geodesic_returns(rolling_window_, bars, asset_returns)
    /\ xb_op' = "geodesic_returns"
    /\ UNCHANGED <<xb_config_, rolling_window_>>
    /\ UNCHANGED <<corevars, evars, nvars, bvars, dvars>>

LaterIdle == EngineIdle /\ NormalizerIdle /\ BetaIdle /\ DetectIdle /\ TripleIdle

\* ------------------------------------------------------------------------
\* Specifications
\* ------------------------------------------------------------------------

ComputeNext ==
    \/ Compute_Begin
    \/ Compute_Guard
    \/ RK4_Stage
    \/ Integrate_Step
    \/ Integrate_Return
    \/ Build_Signal
    \/ Compute_Return

SolveNext ==
    \/ Solve_Begin
    \/ Solve_Stage
    \/ Solve_Step
    \/ Solve_Return

TwoCallNext ==
    \/ ComputeNext
    \/ Switch

IntegrateNext ==
    \/ Integrate_Begin
    \/ RK4_Stage
    \/ Integrate_Step
    \/ Integrate_Return

ConnectionNext ==
    \/ ChristoffelSymbols_Compute
    \/ SpacetimeManifold_ChristoffelSymbols

ComputeStart == ComputeInit /\ SolveIdle /\ ConnectionIdle /\ parked = NoFrame /\ LaterIdle

SolveStart == SolveInit /\ ComputeIdle /\ ConnectionIdle /\ parked = NoFrame /\ LaterIdle

ConnectionStart == ConnectionInit /\ ComputeIdle /\ SolveIdle /\ parked = NoFrame /\ LaterIdle

IntegrateStart == IntegrateInit /\ SolveIdle /\ ConnectionIdle /\ parked = NoFrame /\ LaterIdle

TwoCallStart == TwoCallInit /\ SolveIdle /\ ConnectionIdle /\ LaterIdle

\* One call of compute, from any input of the pools.
SpecCompute == ComputeStart /\ [][ComputeNext]_vars

\* One call of solve, from any input of the pools.
SpecSolve == SolveStart /\ [][SolveNext]_vars

\* The same call of solve run to completion: solve is straight-line code and
\* one loop executed by a single thread, so an enabled step is taken.
SpecSolveRun == SolveStart /\ [][SolveNext]_vars /\ WF_vars(SolveNext)

\* Two calls of compute on one calculator, interleaved in every way, the one
\* after the other included.
SpecTwoCalls == TwoCallStart /\ [][TwoCallNext]_vars

\* One direct call of integrate, from any input of the pools.
SpecIntegrate == IntegrateStart /\ [][IntegrateNext]_vars

\* One call of each Connection Calculator, from any input of the pools.
SpecConnection == ConnectionStart /\ [][ConnectionNext]_vars

\* The geodesic core is not in use.
CoreIdle ==
    ComputeIdle /\ SolveIdle /\ ConnectionIdle /\ parked = NoFrame

EngineNext ==
    \/ Engine_ProcessStreamBar
    \/ Engine_ResetStream

EngineStart == EngineInit /\ CoreIdle /\ NormalizerIdle /\ BetaIdle /\ DetectIdle /\ TripleIdle

\* One engine fed bars of the pool and reset in any order.
SpecEngine == EngineStart /\ [][EngineNext]_vars

NormalizerNext ==
    \/ Normalizer_Normalize
    \/ Normalizer_Reset

NormalizerStart == NormalizerInit /\ CoreIdle /\ EngineIdle /\ BetaIdle /\ DetectIdle /\ TripleIdle

\* One normalizer fed events of the pool and reset in any order.
SpecNormalizer == NormalizerStart /\ [][NormalizerNext]_vars

BetaNext ==
    \/ Beta_ComputeBetaBatch
    \/ Beta_Reset

BetaStart == BetaInit /\ CoreIdle /\ EngineIdle /\ NormalizerIdle /\ DetectIdle /\ TripleIdle

\* One BetaCalculator given batches of the pool and reset in any order.
SpecBeta == BetaStart /\ [][BetaNext]_vars

DetectNext ==
    \E t \in DetectThreads :
        \/ Detect_Call(t)
        \/ Detect_Guard(t)
        \/ Detect_Probe(t)
        \/ Detect_Wake(t)
        \/ Detect_Return(t)

DetectStart == DetectInit /\ CoreIdle /\ EngineIdle /\ NormalizerIdle /\ BetaIdle /\ TripleIdle

\* The threads of one process calling detect_simd_level, interleaved in
\* every way.
SpecDetect == DetectStart /\ [][DetectNext]_vars

TripleNext ==
    \/ Triple_RunTriple
    \/ Triple_GeodesicReturns

TripleStart ==
    TripleInit /\ CoreIdle /\ EngineIdle /\ NormalizerIdle /\ BetaIdle /\ DetectIdle

\* One ExtendedBacktester given bars and returns of the pools, call after call.
SpecTriple == TripleStart /\ [][TripleNext]_vars

\* ------------------------------------------------------------------------
\* Properties of GeodesicDeviationCalculator::compute  (under SpecCompute)
\* ------------------------------------------------------------------------

\* An observation whose four coordinates are all finite.
FiniteEvent(ev) ==
    IsFinite(ev.time) /\ IsFinite(ev.price) /\ IsFinite(ev.volume) /\ IsFinite(ev.momentum)

\* Two or more observations, one of the first two with a non-finite coordinate.
Abandoned ==
    Len(events) >= 2 /\ (~FiniteEvent(events[1]) \/ ~FiniteEvent(events[2]))

\* The call went through the integration and the output loop.
Integrated == Len(events) >= 2 /\ ~Abandoned

\* The Euclidean norm of the difference of the spatial components of the
\* k-th observation and the k-th predicted point (k counted from 1).
EuclideanDeviation(k) ==
    LET d1 == fsub(events[k].price, trajectory[k].position[1])
        d2 == fsub(events[k].volume, trajectory[k].position[2])
        d3 == fsub(events[k].momentum, trajectory[k].position[3])
    IN  fsqrt(fadd(fadd(fmul(d1, d1), fmul(d2, d2)), fmul(d3, d3)))

\* C1: when compute has returned, the result holds exactly as many samples as
\* there were observations (none for none), and sample k is the one of
\* observation k: once there are two or more observations a non-finite
\* observation k gives an invalid sample k, and a valid sample k carries the
\* distance between observation k and predicted point k where that distance
\* is finite.
C1_OneSamplePerObservation ==
    pc = "done" =>
        /\ Len(result) = Len(events)
        /\ Len(events) >= 2 =>
              \A k \in 1..Len(events) : ~FiniteEvent(events[k]) => ~result[k].is_valid
        /\ Integrated =>
              \A k \in 1..Len(events) :
                  (result[k].is_valid /\ IsFinite(EuclideanDeviation(k)))
                      => result[k].geodesic_deviation = EuclideanDeviation(k)

\* C1 witness: a returned call on three observations, the first two finite
\* and distinct, the third non-finite: samples 2 and 3 differ in validity.
C1_Witness ==
    /\ pc = "done"
    /\ Len(events) = 3
    /\ Len(result) = 3
    /\ Integrated
    /\ ~FiniteEvent(events[3])
    /\ result[2].is_valid
    /\ result[2].geodesic_deviation > 0
    /\ ~result[3].is_valid

C3_AbandonedAllInvalid ==
    Abandoned =>
        /\ pc \in {"start", "guard", "done"}
        /\ trajectory = <<>>
        /\ ks = <<>>
        /\ pc = "done" =>
              /\ Len(result) = Len(events)
              /\ \A k \in 1..Len(result) :
                    result[k].geodesic_deviation = 0 /\ ~result[k].is_valid

\* C3 witness: a returned call on three observations whose second alone is
\* non-finite.
C3_Witness ==
    /\ pc = "done"
    /\ Len(events) = 3
    /\ FiniteEvent(events[1])
    /\ ~FiniteEvent(events[2])
    /\ FiniteEvent(events[3])
    /\ Len(result) = 3
    /\ ~result[3].is_valid

\* C4 as stated, for the samples of the output loop: sample k is invalid
\* with deviation 0 whenever observation k or predicted point k has a
\* non-finite component or the deviation computed from them is non-finite,
\* and it is valid only when a finite deviation came from two finite points.
C4_InvalidWheneverNonFinite ==
    (pc = "done" /\ Integrated) =>
        \A k \in 1..Len(result) :
            LET nonfinite == \/ ~FiniteEvent(events[k])
                             \/ ~all_finite(trajectory[k].position)
                             \/ ~IsFinite(EuclideanDeviation(k))
            IN  /\ nonfinite => (~result[k].is_valid /\ result[k].geodesic_deviation = 0)
                /\ result[k].is_valid => ~nonfinite

\* C5 as stated, for the samples of the output loop: the proper time of
\* sample k (counted from 1) is k - 1 times the step size the calculator
\* was constructed with.
C5_ProperTimeUsesStepSize ==
    (pc = "done" /\ Integrated) =>
        \A k \in 1..Len(result) :
            result[k].proper_time = fmul(FromInt(k - 1), step_size_)

\* ------------------------------------------------------------------------
\* Properties of GeodesicSolver::solve  (under SpecSolve, SpecSolveRun)
\* ------------------------------------------------------------------------

\* All eight components of a solver state are finite.
AllEightFinite(s) == \A k \in 0..3 : IsFinite(s.x[k]) /\ IsFinite(s.u[k])

\* The number of steps asked for, brought into 1..MAX_STEPS.
ExpectedSteps ==
    IF steps < 1 THEN 1 ELSE IF steps > MAX_STEPS THEN MAX_STEPS ELSE steps

\* C6: the state solve carries from one RK4 step to the next always has all
\* eight components finite, so a step that produces a non-finite component
\* ends the call with an absent result; and a state that solve returns has
\* all eight components finite.
C6_ReturnedStateFinite ==
    /\ spc = "loop" => AllEightFinite(state)
    /\ (spc = "done" /\ ret.has_value) => AllEightFinite(ret.value)

\* C6 witness: a call from a finite initial state under a valid metric that
\* completed two steps and returned absent out of the third.
C6_Witness ==
    /\ spc = "done"
    /\ AllEightFinite(initial)
    /\ ~ret.has_value
    /\ step = 2
    /\ rk4_calls = 3

\* C7: when the initial state has a non-finite component, solve never
\* invokes rk4_step and never enters its loop, and what it returns is absent,
\* whatever the metric, the step count and the step size.
C7_NonFiniteInitialRejected ==
    ~AllEightFinite(initial) =>
        /\ rk4_calls = 0
        /\ accels = <<>>
        /\ spc \in {"start", "done"}
        /\ spc = "done" => ~ret.has_value

\* C7 witness: a returned call whose initial velocity alone is non-finite,
\* under the Minkowski metric with a step count and step size in range.
C7_Witness ==
    /\ spc = "done"
    /\ \A k \in 0..3 : IsFinite(initial.x[k])
    /\ \E k \in 0..3 : ~IsFinite(initial.u[k])
    /\ metric = minkowski
    /\ steps = 3
    /\ dt = ONE
    /\ ~ret.has_value

\* C8 (as amended): when solve returns a state it has executed exactly the
\* requested number of RK4 steps brought into 1..MAX_STEPS, and when it
\* returns absent it has executed no more than that.
C8_StepsClamped ==
    spc = "done" =>
        /\ rk4_calls <= ExpectedSteps
        /\ ret.has_value => (rk4_calls = ExpectedSteps /\ step = ExpectedSteps)

\* C8 witness: a call asked for a negative number of steps that returned a
\* state after exactly one step.
C8_Witness ==
    /\ spc = "done"
    /\ steps < 0
    /\ ret.has_value
    /\ rk4_calls = 1

\* C8 as stated: every call of solve executes exactly the requested number
\* of RK4 steps brought into 1..MAX_STEPS.
C8_AlwaysExactlyClampedSteps ==
    spc = "done" => rk4_calls = ExpectedSteps

\* C9: every call of solve returns, and it never executes more than
\* MAX_STEPS iterations of its loop.
C9_Terminates ==
    /\ <>(spc = "done")
    /\ [](rk4_calls <= MAX_STEPS /\ step <= MAX_STEPS)

\* C9 witness: a call asked for 10,000,000 steps that returned a state after
\* MAX_STEPS steps.
C9_Witness ==
    /\ spc = "done"
    /\ steps = 10000000
    /\ ret.has_value
    /\ rk4_calls = MAX_STEPS

\* C10 as stated: whenever solve has invoked rk4_step, the step size it
\* passes lies in [DT_MIN, DT_MAX].
C10_StepSizeInRange ==
    rk4_calls > 0 =>
        /\ IsFinite(clamped_dt)
        /\ clamped_dt >= DT_MIN
        /\ clamped_dt <= DT_MAX


\* ------------------------------------------------------------------------
\* Claims C11 to C20
\* ------------------------------------------------------------------------

\* A metric with finite entries that is singular (a zero on its diagonal) or
\* breaks the signature (-,+,+,+) on its diagonal.
DegenerateMetric(g) ==
    /\ \A mu \in 0..3 : \A nu \in 0..3 : IsFinite(g[mu][nu])
    /\ \/ g[0][0] >= 0
       \/ \E k \in 1..3 : g[k][k] <= 0

SingularAt(m, x) == \E k \in 0..3 : evaluate(m, x)[k][k] = 0

\* The diagonal of a manifold metric cannot be inverted: an entry of it is
\* zero or not finite.
DiagonalNotInvertible(g) == \E k \in 0..3 : g[k][k] = 0 \/ ~IsFinite(g[k][k])

\* C12: when the inversion of the metric fails at the point, each Connection
\* Calculator returns normally, and what it returns is the complete array of
\* 64 coefficients, every one of them exactly 0.
C12_ZeroConnectionWhenInversionFails ==
    /\ (cs_pc = "done" /\ SingularAt(cs_metric, cs_x)) =>
           /\ DOMAIN cs_result = 0..3
           /\ \A l \in 0..3 : \A mu \in 0..3 : \A nu \in 0..3 :
                  cs_result[l][mu][nu] = 0
    /\ (sm_pc = "done" /\ DiagonalNotInvertible(sm_metric)) =>
           /\ DOMAIN sm_result = 0..63
           /\ \A idx \in 0..63 : sm_result[idx] = 0

\* C12 witness: both calls have returned; the tensor calculator was asked at
\* the one time coordinate where the time-varying metric is singular, the
\* manifold calculator was given a metric with a zero on its diagonal.
C12_Witness ==
    /\ cs_pc = "done"
    /\ cs_metric = TimeVaryingVol
    /\ cs_x[0] = 0 - 2 * ONE
    /\ SingularAt(cs_metric, cs_x)
    /\ cs_result[1][0][1] = 0
    /\ sm_pc = "done"
    /\ sm_metric[1][1] = 0
    /\ sm_result[christoffel_index(1, 1, 1)] = 0

\* A coefficient is zero to the tolerance of the flat-metric properties: it
\* is a number and its magnitude is below 1e-8.
NearZero(v) == IsFinite(v) /\ Abs(v) < Quantize(1, 100000000)

\* C13 as stated: for a position-independent metric, flat or diagonally
\* scaled, every one of the 64 coefficients either Connection Calculator
\* returns, at any point, is zero to within 1e-8.
C13_ConstantMetricZeroConnection ==
    /\ (cs_pc = "done" /\ cs_metric.fn = "diagonal") =>
           \A l \in 0..3 : \A mu \in 0..3 : \A nu \in 0..3 :
               NearZero(cs_result[l][mu][nu])
    /\ sm_pc = "done" => \A idx \in 0..63 : NearZero(sm_result[idx])

LinearPosition(k, c) == fadd(x0[c], fmul(fmul(FromInt(k), step_size_), u0[c]))

\* Two numbers that differ by no more than the rounding of k steps, one grid
\* unit a step.
WithinRounding(a, b, k) == IsFinite(a) /\ IsFinite(b) /\ Abs(a - b) <= k

\* C15 as stated: on a position-independent metric, the state integrate
\* holds after k steps of size h has the velocity of the initial state and
\* the position position(0) + velocity(0) * k * h, for every k.
C15_UniformLinearMotion ==
    (pc \in {"integrate", "done"} /\ metric_.fn = "diagonal") =>
        \A k \in 0..(Len(trajectory) - 1) : \A c \in 0..3 :
            /\ At(trajectory, k).velocity[c] = u0[c]
            /\ WithinRounding(At(trajectory, k).position[c], LinearPosition(k, c), k)

\* C16 as stated: every direct call of integrate returns, and what it
\* returns is a sequence of exactly steps + 1 states whose first element is
\* (x0, u0) and whose element k + 1 is one RK4 step from element k.
C16_TrajectoryOfStepsPlusOne ==
    /\ pc # "length_error"
    /\ (pc = "done" /\ ret_pc = "done") =>
           /\ Len(trajectory) = integrate_steps + 1
           /\ At(trajectory, 0) = GeodesicState(x0, u0)
           /\ \A k \in 0..(Len(trajectory) - 2) :
                  At(trajectory, k + 1) =
                      rk4_step(metric_, step_size_, DEFAULT_FD_STEP, At(trajectory, k))

\* Component c of the displacement from observation 0 to observation 1.
Displacement(c) ==
    CASE c = 0 -> fsub(events[2].time, events[1].time)
      [] c = 1 -> fsub(events[2].price, events[1].price)
      [] c = 2 -> fsub(events[2].volume, events[1].volume)
      [] c = 3 -> fsub(events[2].momentum, events[1].momentum)

\* The length of that displacement, as the format computes it.
DisplacementLength ==
    fsqrt(fadd(fadd(fadd(fmul(Displacement(0), Displacement(0)),
                         fmul(Displacement(1), Displacement(1))),
                    fmul(Displacement(2), Displacement(2))),
               fmul(Displacement(3), Displacement(3))))

\* compute has called integrate.
IntegrateCalled == ret_pc = "build" /\ trajectory # <<>>

DifferOnlyInLaterTimes(a, b) ==
    /\ Len(a) = Len(b)
    /\ \A k \in 1..Len(a) :
          /\ a[k].price = b[k].price
          /\ a[k].volume = b[k].volume
          /\ a[k].momentum = b[k].momentum
          /\ IsFinite(a[k].time) /\ IsFinite(b[k].time)
          /\ k <= 2 => a[k].time = b[k].time

\* Both calls on the calculator have returned.
BothReturned == pc = "done" /\ parked.pc = "done"

\* C18: two calls of compute whose observations differ only in the finite
\* time coordinate of observations of index 2 or more return the same
\* deviation for every sample.
C18_DeviationIgnoresLaterTimes ==
    (BothReturned /\ DifferOnlyInLaterTimes(events, parked.events)) =>
        /\ Len(result) = Len(parked.result)
        /\ \A k \in 1..Len(result) :
               result[k].geodesic_deviation = parked.result[k].geodesic_deviation

\* C18 witness: two returned calls whose third observations differ in time,
\* with a third sample that is valid and deviates from the geodesic.
C18_Witness ==
    /\ BothReturned
    /\ Len(events) = 3
    /\ DifferOnlyInLaterTimes(events, parked.events)
    /\ events[3].time # parked.events[3].time
    /\ result[3].is_valid
    /\ result[3].geodesic_deviation > 0
    /\ parked.result[3].geodesic_deviation = result[3].geodesic_deviation

\* The observations are finite, at least two, not all the same, and each is
\* the one before it moved by the displacement of the first two.
OnUniformLine(evs) ==
    /\ Len(evs) >= 2
    /\ evs[1] # evs[2]
    /\ \A k \in 1..Len(evs) : FiniteEvent(evs[k])
    /\ \A k \in 2..(Len(evs) - 1) :
          /\ evs[k + 1].time - evs[k].time = evs[2].time - evs[1].time
          /\ evs[k + 1].price - evs[k].price = evs[2].price - evs[1].price
          /\ evs[k + 1].volume - evs[k].volume = evs[2].volume - evs[1].volume
          /\ evs[k + 1].momentum - evs[k].momentum = evs[2].momentum - evs[1].momentum

\* C19 as stated: under the flat metric, when the observations lie on a
\* straight line with uniform spacing, every sample compute returns is valid
\* with a deviation of zero, to within two grid units of rounding.
C19_StraightLineZeroDeviation ==
    (pc = "done" /\ ret_pc = "build" /\ metric_ = make_minkowski(ONE, ONE)
       /\ OnUniformLine(events)) =>
        \A k \in 1..Len(result) :
            /\ result[k].is_valid
            /\ result[k].geodesic_deviation <= 2

ExcessiveRequest == steps > MAX_STEPS \/ flt(DT_MAX, dt)

\* C21 (as amended): an excessive step count or step size is brought back
\* to MAX_STEPS or DT_MAX and the call proceeds with the clamped values: it
\* returns a state after exactly the clamped number of steps, and it returns
\* absent only for a non-finite initial state, an invalid metric or a step
\* that produced a non-finite component.
C21_ExcessiveRequestClamped ==
    (ExcessiveRequest /\ spc # "start" /\ is_finite(initial)) =>
        /\ steps > MAX_STEPS => clamped_steps = MAX_STEPS
        /\ flt(DT_MAX, dt) => clamped_dt = DT_MAX
        /\ spc = "done" =>
              /\ ret.has_value => rk4_calls = clamped_steps
              /\ ~ret.has_value => (~is_valid(metric) \/ rk4_calls = step + 1)

\* C21 witness: a call asked for 10,000,000 steps of three times the largest
\* step size that returned a state after MAX_STEPS steps of size DT_MAX.
C21_Witness ==
    /\ spc = "done"
    /\ steps = 10000000
    /\ dt = 3 * ONE
    /\ ret.has_value
    /\ rk4_calls = MAX_STEPS
    /\ clamped_dt = DT_MAX

\* C21 as stated: a call with an excessive step count or step size returns
\* an absent result.
C21_ExcessiveRequestAbsent ==
    (spc = "done" /\ ExcessiveRequest) => ~ret.has_value

\* C22: a process_stream_bar call returns absent exactly when the window
\* holds fewer than two bars after the push, which is exactly the first call
\* after construction or reset_stream; so n >= 1 calls without a reset have
\* returned n - 1 PipelineBars.
C22_StreamWarmUp ==
    /\ stream_op = "process" =>
          /\ ~stream_ret.has_value <=> Len(stream_window_) < 2
          /\ ~stream_ret.has_value <=> bars_fed = 1
    /\ bars_fed >= 1 => bars_returned = bars_fed - 1

\* C22 witness: the third bar fed since a reset, a bar whose close is not a
\* number, has returned the second PipelineBar.
C22_Witness ==
    /\ stream_op = "process"
    /\ bars_fed = 3
    /\ bars_returned = 2
    /\ stream_ret.has_value
    /\ stream_ret.value.raw.close = NAN

\* C30 as stated: the bar buffer is a rolling one; it never holds more bars
\* than the WINDOW most recent ones that process_stream_bar reads.
C30_StreamWindowBounded ==
    Len(stream_window_) <= WINDOW

\* min(a, b) of two counts.
MinCount(a, b) == IF a < b THEN a ELSE b

\* C23: size() equals the smaller of the number of normalize calls since
\* construction or the last reset and window_size(); so it never exceeds
\* window_size(), and it is 0 right after reset.
C23_SizeIsMinOfCallsAndWindow ==
    /\ size = MinCount(normalize_calls, window_size)
    /\ size <= window_size
    /\ norm_op = "reset" => size = 0
    /\ Len(volume_buf_) = size /\ Len(momentum_buf_) = size

\* C23 witness: a window of 2 after four normalize calls holds 2 samples.
C23_Witness ==
    /\ norm_op = "normalize"
    /\ window_size = 2
    /\ normalize_calls = 4
    /\ size = 2

\* C24 as stated: running_max equals the largest |velocity| supplied since
\* construction or the last reset (0 if none), and it is 0 right after
\* reset.
C24_RunningMaxIsLargestSupplied ==
    /\ running_max_ = max_supplied
    /\ beta_op = "reset" => running_max_ = 0

\* C25: the initializer of the SIMD level runs at most once in a process,
\* the value it writes is never written again, and every call of
\* detect_simd_level, by whichever thread and however the first calls
\* overlap, returns that value.
C25_LevelWrittenOnce ==
    /\ [](probes <= 1)
    /\ [](\A t \in DetectThreads :
             tret[t] # "none" =>
                 (guard = "done" /\ probes = 1 /\ tret[t] = kLevel
                  /\ kLevel = ProbeLevel(cpu)))
    /\ [][guard = "done" => (kLevel' = kLevel /\ guard' = "done")]_vars

\* C25 witness: three overlapping first calls on an AVX-512 machine; one
\* thread ran the initializer, two have returned AVX512F and one is still
\* waiting at the guard.
C25_Witness ==
    /\ probes = 1
    /\ tpc[2] = "wait"
    /\ tret[1] = "AVX512F"
    /\ tret[3] = "AVX512F"
    /\ tcalls[1] = 1 /\ tcalls[3] = 1

\* A series whose values are all the same.
ConstantSeries(v) == \A k \in 1..Len(v) : v[k] = v[1]

\* The case of the validation test: equal lengths of at least the minimum,
\* every bar with the same raw signal and the same finite deviation, every
\* asset return the same positive value, effective mass 1 as by default.
ConstantInputs ==
    /\ Len(xb_bars) = Len(xb_asset_returns)
    /\ Len(xb_bars) >= MIN_RETURN_SERIES_LENGTH
    /\ ConstantSeries([k \in 1..Len(xb_bars) |-> xb_bars[k].base.raw_signal])
    /\ ConstantSeries([k \in 1..Len(xb_bars) |-> xb_bars[k].geodesic_deviation])
    /\ IsFinite(xb_bars[1].geodesic_deviation)
    /\ ConstantSeries(xb_asset_returns)
    /\ IsFinite(xb_asset_returns[1]) /\ xb_asset_returns[1] > 0
    /\ xb_config_.effective_mass = ONE

\* C26: for equal-length inputs of at least MIN_RETURN_SERIES_LENGTH bars
\* with a constant positive asset return, a constant raw signal and a
\* constant geodesic deviation, run_triple returns a present TripleComparison.
C26_ConstantInputsGivePresentResult ==
    (xb_op = "run_triple" /\ ConstantInputs) => xb_ret.has_value

\* The accelerations solve has computed so far: four for each completed step
\* and those of the step in progress.
AccelerationsComputed == 4 * step + Len(accels)

\* C27: within every RK4 step the connection is re-evaluated from the metric
\* at each of the four stage positions; the integrator never reuses a
\* connection computed once per call or at another position.  For solve:
\* every acceleration computed so far has its own evaluation of the
\* connection coefficients.
C27_ConnectionEvaluatedAtEachStage ==
    spc # "idle" => AccelerationsComputed <= christoffel_calls

\* compute has passed its guard: at least two observations, the first two
\* finite, and integrate has returned its trajectory.
TrajectoryReturned ==
    /\ pc \in {"build", "done"}
    /\ Len(events) >= 2
    /\ ~FirstTwoNotFinite(actual_points)

\* C28: for count >= 2 observations whose first two points are finite,
\* compute drives the integrator exactly once, from observation 0, for
\* count - 1 steps: the trajectory has exactly count states, its state 0 is
\* observation 0, and the predicted point of sample i is the position of
\* trajectory state i for every i in 0..count-1.
C28_TrajectoryAlignedWithObservations ==
    /\ [](TrajectoryReturned =>
            /\ x0 = to_point(events[1])
            /\ integrate_steps = Len(events) - 1
            /\ Len(trajectory) = Len(events)
            /\ At(trajectory, 0).position = to_point(events[1])
            /\ \A k \in 1..Len(result) :
                  /\ k <= Len(trajectory)
                  /\ result[k] = BuildSignal(to_point(events[k]),
                                             trajectory[k].position, k - 1, step_size_)
            /\ pc = "done" => Len(result) = Len(events))
    /\ [][(pc \in {"build", "done"}) => (pc' \in {"build", "done"})]_vars

\* A call with MaxEvents observations has returned one sample for each,
\* built from a trajectory of as many states.
C28_Witness ==
    /\ TrajectoryReturned
    /\ pc = "done"
    /\ Len(events) = MaxEvents
    /\ Len(trajectory) = MaxEvents
    /\ Len(result) = MaxEvents
    /\ At(trajectory, MaxEvents - 1).position # to_point(events[1])

\* The samples of two results agree everywhere but at position k.
AgreeExceptAt(a, b, k) ==
    /\ Len(a) = Len(b)
    /\ \A j \in 1..Len(a) : j # k => a[j] = b[j]

\* Values an observation is replaced by: a finite one and one with a NaN
\* time stamp, both observations of the pool.
Replacements == { SpacetimeEvent(ONE, ONE, 0, 0), SpacetimeEvent(NAN, ONE, 0, 0) }

\* The observations of the returned call followed by one more, a copy of
\* the last.
Extended == Append(events, events[Len(events)])

\* C29: the predicted trajectory depends only on observations 0 and 1 and
\* the metric: for any index i >= 2, replacing observation i by any other
\* value, finite or not, changes at most sample i; the deviation, proper
\* time and validity of every other sample stay the same.  The second
\* conjunct is the case of a sample that follows the replaced observation.
C29_ReplacementChangesOneSample ==
    (pc = "done" /\ Len(events) >= 3) =>
        /\ \A k \in 3..Len(events), v \in Replacements :
              AgreeExceptAt(result,
                            compute(metric_, step_size_, [events EXCEPT ![k] = v]), k)
        /\ AgreeExceptAt(compute(metric_, step_size_, Extended),
                         compute(metric_, step_size_,
                                 [Extended EXCEPT ![3] = SpacetimeEvent(NAN, ONE, 0, 0)]),
                         3)

\* C29 witness: a returned call whose third sample is valid and off the
\* geodesic; replacing the third observation by a NaN one makes that sample
\* invalid, and replacing it by another finite one changes its deviation.
C29_Witness ==
    /\ pc = "done"
    /\ Len(events) = 3
    /\ result[3].is_valid
    /\ result[3].geodesic_deviation > 0
    /\ \E v \in Replacements :
          /\ ~FiniteEvent(v)
          /\ ~compute(metric_, step_size_, [events EXCEPT ![3] = v])[3].is_valid
    /\ \E v \in Replacements :
          LET other == compute(metric_, step_size_, [events EXCEPT ![3] = v])
          IN  /\ other[3].is_valid
              /\ other[3].geodesic_deviation # result[3].geodesic_deviation

============================================================================
